---- MODULE Spec2Model ----
(***************************************************************************)
(* KeyForge asynchronous logging pipeline (ADVANCED_LOGGERS/Logger.cpp):   *)
(* AsyncLogger (bounded intake queue, dispatch worker, sinks, subscribers),*)
(* InMemorySink with its Ring buffers, and RotatingFileSink.               *)
(***************************************************************************)
EXTENDS Integers, Sequences, FiniteSets, TLC

(* ------------------------------ bounds --------------------------------- *)
\* total number of AsyncLogger::log() calls issued by the producers
MaxLogs == 4
\* scaled-down value of AsyncLogger::max_queue_size_ (1 << 20 in the source)
max_queue_size_ == 3
\* number of subscribe() calls
MaxSubs == 1
\* number of setLevel() calls
MaxSetLevel == 2
\* largest ring capacity given to InMemorySink(global_capacity, per_session_capacity)
MaxCap == 3
\* number of InMemorySink::consume() calls
MaxConsume == 4
\* largest max_bytes given to RotatingFileSink; formatted records and the file
\* found at construction are up to one byte longer
MaxBytes == 3
\* largest max_files given to RotatingFileSink
MaxRetention == 2
\* number of RotatingFileSink::consume() calls
MaxWrites == 3
\* entries of sinks_ (the same sink may be registered more than once)
MaxSinks == 3
\* log() calls in the scenario with addSink() and removeSink()
MaxSinkLogs == 2
\* log() calls in the scenario with subscribe() and unsubscribe()
MaxHandleLogs == 2
\* subscribe() calls in the scenario with callbacks that throw
MaxFanout == 2
\* subscribe() calls in the scenario about handles
MaxHandles == 3
\* largest capacity given to Logger::resetBuffer, and the stand-in for the 1024
\* slots global_buf_ is constructed with
MaxBufCap == 3
\* messages pushed into global_buf_ between two resets or clears
MaxBufLogs == 4
\* cap on Store::update_count and Store::delete_count
MaxCount == 2
\* lines of a file given to Store::loadFromFile
MaxLines == 2

(* ------------------------- program constants --------------------------- *)
TRACE == 0
DEBUG == 1
INFO  == 2
WARN  == 3
ERROR == 4
FATAL == 5
LogLevel == TRACE..FATAL

\* inputs enumerated for log() and setLevel()
LogLevels == {INFO, WARN}
SetLevels == {INFO, WARN}
Producers == {"p1", "p2"}
\* threads that call start() and shutdown()
Callers == {"t1", "t2"}
\* the sinks Logger::Logger() registers, in order: ConsoleSink, InMemorySink
DefaultSinks == << "console", "memory" >>
SinkIds == {"console", "memory"}

\* a record that no log() call produced: what a read of an empty deque's
\* back() may yield besides a stale slot
Garbage == 0

\* no consume() call has thrown yet / no subscriber has been called yet
None == [sink |-> "none", rec |-> 0]
NoCall == [sub |-> 0, own |-> 0, got |-> 0]
NoLog == [id |-> 0, level |-> TRACE, thr |-> TRACE]

VARIABLES
    \* ---- AsyncLogger members
    running_,       \* std::atomic<bool> running_
    threshold_,     \* std::atomic<LogLevel> threshold_
    queue_,         \* std::deque<Item> queue_
    sinks_,         \* std::vector<std::shared_ptr<Sink>> sinks_
    subscribers_,   \* keys of std::unordered_map<int, Subscriber>
    next_sub_id_,   \* int next_sub_id_
    worker_,        \* std::thread worker_: TRUE while joinable
    \* ---- dispatch worker thread (workerThreadMain)
    w_pc, w_it, w_copy, w_i,
    \* ---- producer threads (log)
    p_pc, p_rec, p_subs,
    \* ---- lifecycle thread (shutdown)
    m_pc, m_flush,
    \* ---- observations (history)
    n_calls,        \* number of log() calls so far; a record is named by the
                    \* number of the call that built it
    last_call,      \* [id, level, thr] of the latest log() call: its level and the
                    \* level given to the latest setLevel() before its threshold read
    dropped,        \* calls that returned at the threshold test
    last_set,       \* level stored by the latest setLevel() (INFO at construction)
    accepted,       \* records in the order their push_back completed
    evicted,        \* records removed by the overflow pop_front
    dequeued,       \* records popped by the worker, in order
    consumed,       \* sink -> records its consume() was called with
    fault_at,       \* [sink, rec] of the first consume() call that threw
    cb_last,        \* the latest subscriber invocation: [sub, own, got]
    q_hit_max,      \* the queue reached max_queue_size_ at some point
    sd_left,        \* queue contents at the moment shutdown() returned
    n_setlevel,     \* number of setLevel() calls so far
    \* ---- threads calling start() and shutdown()
    l_pc,           \* caller -> its position inside start() or shutdown()
    l_fault,        \* misuse of the std::thread handle worker_, once it happened
    q_mtx_,         \* std::mutex q_mtx_: "free", or the thread that holds it
    q_race,         \* queue_ was accessed by a thread that did not hold q_mtx_
                    \* while another thread held it
    q_cv_,          \* std::condition_variable q_cv_: a notification has reached
                    \* the worker blocked in wait_for
    p_snap,         \* producer -> the subscriber snapshot of its current log() call
    p_inv,          \* producer -> the callbacks that call has invoked so far, in
                    \* order: [sub, threw]
    snaps,          \* one entry per sink snapshot of the worker: the record, the
                    \* copy taken, and the sinks registered at that moment
    flushed,        \* the sinks flushed by the worker's flush() on leaving its loop
    handles,        \* the handles subscribe() has returned, in order
    unsubscribed,   \* the registered handles unsubscribe() has been called with
    raised_over,    \* records that were queued or in dispatch when a setLevel()
                    \* raised the threshold above their level (the level known
                    \* being that of the latest log() call)
    \* ---- InMemorySink members
    global_,                \* Ring global_
    per_session_capacity_,  \* size_t per_session_capacity_
    sessions_,              \* std::unordered_map<std::string, Ring> sessions_
    \* ---- observations (history)
    g_hist,         \* records consumed since construction or the last clearAll()
    g_cleared,      \* clearAll() has run Ring::clear() on global_
    s_hist,         \* session id -> records consumed with it since its ring was
                    \* created (empty when it has no ring)
    \* ---- RotatingFileSink members and its files
    fp_,            \* FILE* fp_: "file" (base.0.log), "stdout" or "null";
                    \* "unconstructed" when the constructor threw
    current_size_,  \* size_t current_size_
    max_bytes_,     \* size_t max_bytes_
    max_files_,     \* int max_files_
    fs,             \* index i -> the file base.i.log: [exists, data]
    \* ---- observations (history)
    out_stdout,     \* records written to standard output
    n_writes,       \* number of consume() calls so far
    rot_last,       \* the latest consume(): its record and the state it found
    \* ---- Server members (Server.hpp) and its threads
    shutdown_requested_,    \* std::atomic<bool> shutdown_requested_
    server_fd_,             \* int server_fd_: "open" (listening) or "closed" (-1)
    run_pc,                 \* position of the thread inside Server::run()
    conn,                   \* client -> its connection and handleClient thread
    \* ---- Store members (Store.hpp)
    kv_store_,              \* std::unordered_map<std::string, std::string>
    value_to_keys_,         \* value -> set of the keys mapped to it
    \* ---- observations (history)
    srv_last,       \* the latest command handled: [cmd, arg, resp]
    update_count,   \* std::atomic<size_t> update_count
    delete_count,   \* std::atomic<size_t> delete_count
    st_last,        \* the latest Store call: [op, key, had, ret]
    \* ---- keyforge::Logger members (the singleton with the circular buffer)
    global_buf_,    \* CircularBuffer: [buffer_, head_, tail_, capacity_, full_]
    log_threshold_, \* std::atomic<LogLevel> threshold_ of keyforge::Logger
    \* ---- observations (history)
    buf_hist,       \* [logged, dumped, fresh, oob, div0, alive], see BufferInit
    \* ---- the threads of the pipeline seen through the mutexes they take
    held,           \* thread -> the locks it holds, in the order it took them
    todo,           \* thread -> the lock steps and calls left of what it runs
    stack           \* thread -> the functions it is inside of, outermost first

loggerVars == << running_, threshold_, queue_, sinks_, subscribers_, next_sub_id_,
                 worker_, w_pc, w_it, w_copy, w_i, p_pc, p_rec, p_subs, m_pc, m_flush,
                 n_calls, last_call, dropped, last_set, accepted, evicted, dequeued,
                 consumed, fault_at, cb_last, q_hit_max, sd_left, n_setlevel,
                 q_mtx_, q_race, l_pc, l_fault, q_cv_, p_snap, p_inv, snaps, flushed,
                 handles, unsubscribed, raised_over >>

memVars == << global_, per_session_capacity_, sessions_, g_hist, g_cleared, s_hist >>

\* the state of the sink objects, which the AsyncLogger actions leave alone
rotVars == << fp_, current_size_, max_bytes_, max_files_, fs, out_stdout, n_writes,
             rot_last >>

sinkVars == << memVars, rotVars >>

statVars == << update_count, delete_count, st_last >>

bufVars == << global_buf_, log_threshold_, buf_hist >>

ordVars == << held, todo, stack >>

srvVars == << shutdown_requested_, server_fd_, run_pc, conn, kv_store_, value_to_keys_,
             srv_last, statVars, bufVars, ordVars >>

lockVars == << q_mtx_, q_race, q_cv_ >>

lifeVars == << l_pc, l_fault >>

\* what the actions of the pipeline in operation leave alone
restVars == << sinkVars, srvVars, lifeVars >>

vars == << loggerVars, memVars, rotVars, srvVars >>

\* groups of variables, for the frame conditions
cfgVars == << threshold_, sinks_, subscribers_, next_sub_id_, last_set, n_setlevel,
             handles, unsubscribed, raised_over >>
qVars   == << queue_, accepted, evicted, dequeued, q_hit_max >>
wVars   == << w_pc, w_it, w_copy, w_i, consumed, fault_at, snaps, flushed >>
pVars   == << p_pc, p_rec, p_subs, n_calls, last_call, dropped, cb_last, p_snap, p_inv >>
mVars   == << running_, worker_, m_pc, m_flush, sd_left >>

(* ------------------------------ helpers -------------------------------- *)
Last(s) == s[Len(s)]

Front(s) == SubSeq(s, 1, Len(s) - 1)

Range(s) == { s[i] : i \in 1..Len(s) }

IsPrefix(s, t) == Len(s) <= Len(t) /\ SubSeq(t, 1, Len(s)) = s

(* --------------------------- AsyncLogger ------------------------------- *)
\* the pipeline as Logger::Logger() leaves it: AsyncLogger() defaults
\* (threshold INFO, empty queue, no subscriber), two sinks added, start() done
LoggerInit ==
    /\ running_ = TRUE
    /\ threshold_ = INFO
    /\ queue_ = << >>
    /\ sinks_ = DefaultSinks
    /\ subscribers_ = {}
    /\ next_sub_id_ = 1
    /\ worker_ = TRUE
    /\ w_pc = "loop" /\ w_it = Garbage /\ w_copy = << >> /\ w_i = 1
    /\ p_pc = [p \in Producers |-> "idle"]
    /\ p_rec = [p \in Producers |-> Garbage]
    /\ p_subs = [p \in Producers |-> {}]
    /\ m_pc = "started" /\ m_flush = FALSE
    /\ n_calls = 0
    /\ last_call = NoLog
    /\ dropped = {}
    /\ last_set = INFO
    /\ accepted = << >>
    /\ evicted = << >>
    /\ dequeued = << >>
    /\ consumed = [s \in SinkIds |-> << >>]
    /\ fault_at = None
    /\ cb_last = NoCall
    /\ q_hit_max = FALSE
    /\ sd_left = << >>
    /\ n_setlevel = 0
    /\ q_mtx_ = "free"
    /\ q_race = FALSE
    /\ l_pc = [t \in Callers |-> "idle"]
    /\ l_fault = "none"
    /\ q_cv_ = FALSE
    /\ p_snap = [p \in Producers |-> {}]
    /\ p_inv = [p \in Producers |-> << >>]
    /\ snaps = << >>
    /\ flushed = << >>
    /\ handles = << >>
    /\ unsubscribed = {}
    /\ raised_over = {}



\* q_cv_ after notify_one() or notify_all(): a worker blocked in wait_for is
\* woken; with no thread waiting the notification is lost
notified == q_cv_ \/ w_pc = "blocked"

\* AsyncLogger::shutdown(flush_flag), lines 307-311: clear running_, notify_all
ShutdownBegin ==
    /\ m_pc = "started"
    /\ \E flush_flag \in BOOLEAN : m_flush' = flush_flag
    /\ running_' = FALSE
    /\ m_pc' = "joining"
    /\ q_cv_' = notified
    /\ UNCHANGED << restVars, q_mtx_, q_race, worker_, sd_left, cfgVars, qVars, wVars, pVars >>

\* AsyncLogger::shutdown, lines 312-314: join the worker when joinable (blocks
\* until workerThreadMain has returned), flush the sinks when asked, return
ShutdownJoin ==
    /\ m_pc = "joining"
    /\ worker_ => w_pc = "done"
    /\ worker_' = FALSE
    /\ m_pc' = IF m_flush THEN "returned_flushed" ELSE "returned"
    /\ sd_left' = queue_
    /\ UNCHANGED << restVars, lockVars, running_, m_flush, cfgVars, qVars, wVars, pVars >>

\* the process runs: no std::terminate and no undefined behaviour so far
Alive == l_fault = "none"

\* AsyncLogger::start, lines 301-302: compare_exchange_strong(false -> true);
\* on a running pipeline the call returns here
StartCas(t) ==
    /\ Alive
    /\ l_pc[t] = "idle"
    /\ IF running_
       THEN UNCHANGED << running_, l_pc >>
       ELSE /\ running_' = TRUE
            /\ l_pc' = [l_pc EXCEPT ![t] = "spawn"]
    /\ UNCHANGED << sinkVars, srvVars, lockVars, l_fault, worker_, m_pc, m_flush, sd_left,
                    cfgVars, qVars, wVars, pVars >>

\* the outcome of move-assigning to a std::thread, line 303: std::terminate
\* when the handle still holds a joinable thread
assignFault(joinable) == IF joinable THEN "assign_joinable" ELSE "none"

\* AsyncLogger::start, line 303: a new thread runs workerThreadMain and is
\* assigned to worker_
StartSpawn(t) ==
    /\ Alive
    /\ l_pc[t] = "spawn"
    /\ l_fault' = assignFault(worker_)
    /\ worker_' = TRUE
    /\ w_pc' = "loop"
    /\ l_pc' = [l_pc EXCEPT ![t] = "idle"]
    /\ UNCHANGED << sinkVars, srvVars, lockVars, running_, m_pc, m_flush, sd_left,
                    w_it, w_copy, w_i, consumed, fault_at, snaps, flushed, cfgVars, qVars, pVars >>

\* AsyncLogger::shutdown, lines 307-311: running_ becomes false, notify_all
ShutCas(t) ==
    /\ Alive
    /\ l_pc[t] = "idle"
    /\ running_' = FALSE
    /\ l_pc' = [l_pc EXCEPT ![t] = "check"]
    /\ q_cv_' = notified
    /\ UNCHANGED << sinkVars, srvVars, q_mtx_, q_race, l_fault, worker_, m_pc, m_flush, sd_left,
                    cfgVars, qVars, wVars, pVars >>

\* AsyncLogger::shutdown, line 312: worker_.joinable(); when it is, the caller
\* enters join(), and two callers inside join() of one thread is a fault;
\* when it is not, flush and return
ShutCheck(t) ==
    /\ Alive
    /\ l_pc[t] = "check"
    /\ IF worker_
       THEN /\ l_pc' = [l_pc EXCEPT ![t] = "join"]
            /\ l_fault' = IF \E u \in Callers \ {t} : l_pc[u] = "join"
                          THEN "concurrent_join" ELSE l_fault
       ELSE /\ l_pc' = [l_pc EXCEPT ![t] = "idle"]
            /\ UNCHANGED l_fault
    /\ UNCHANGED << sinkVars, srvVars, lockVars, running_, worker_, m_pc, m_flush, sd_left,
                    cfgVars, qVars, wVars, pVars >>

\* AsyncLogger::shutdown, lines 312-313: join() returns once workerThreadMain
\* has returned; flush; return
ShutJoin(t) ==
    /\ Alive
    /\ l_pc[t] = "join"
    /\ w_pc = "done"
    /\ worker_' = FALSE
    /\ l_pc' = [l_pc EXCEPT ![t] = "idle"]
    /\ UNCHANGED << sinkVars, srvVars, lockVars, l_fault, running_, m_pc, m_flush, sd_left,
                    cfgVars, qVars, wVars, pVars >>

\* mutant of newHandle: the lowest id not in use
lowestFreeHandle == CHOOSE id \in 1..next_sub_id_ :
                        id \notin subscribers_ /\ \A j \in 1..(id - 1) : j \in subscribers_

\* the handle subscribe() returns, line 328
newHandle == next_sub_id_

\* AsyncLogger::subscribe, at most max calls of it: returns next_sub_id_++
subscribeUpTo(max) ==
    /\ Len(handles) < max
    /\ subscribers_' = subscribers_ \cup {newHandle}
    /\ next_sub_id_' = next_sub_id_ + 1
    /\ handles' = Append(handles, newHandle)
    /\ UNCHANGED << restVars, lockVars, threshold_, sinks_, last_set, n_setlevel, unsubscribed,
                    raised_over, qVars, wVars, pVars, mVars >>

\* mutant of eraseSubscriber: the entry stays in the map
keepSubscriber(subs, id) == subs

\* subscribers_.erase(id), line 335
eraseSubscriber(subs, id) == subs \ {id}

\* AsyncLogger::unsubscribe
unsubscribe(id) ==
    /\ subscribers_' = eraseSubscriber(subscribers_, id)
    /\ unsubscribed' = unsubscribed \cup ({id} \cap subscribers_)
    /\ UNCHANGED << restVars, lockVars, threshold_, sinks_, next_sub_id_, last_set, n_setlevel,
                    handles, raised_over, qVars, wVars, pVars, mVars >>

\* mutant of removeValue: only the first matching entry is erased
removeFirst(v, sink) ==
    IF \E i \in 1..Len(v) : v[i] = sink
    THEN LET i == CHOOSE i \in 1..Len(v) : v[i] = sink /\ \A j \in 1..(i - 1) : v[j] # sink
         IN  SubSeq(v, 1, i - 1) \o SubSeq(v, i + 1, Len(v))
    ELSE v

\* sinks_ after erase(std::remove(begin, end, sink), end), line 323: the
\* entries that do not compare equal to sink move to the front in order and
\* the tail is cut off
RECURSIVE removeValue(_, _)
removeValue(v, sink) ==
    IF v = << >> THEN << >>
    ELSE IF Head(v) = sink THEN removeValue(Tail(v), sink)
         ELSE << Head(v) >> \o removeValue(Tail(v), sink)

\* AsyncLogger::addSink: push_back under sinks_mtx_ (the same instance may be
\* added more than once)
addSink(sink) ==
    /\ Len(sinks_) < MaxSinks
    /\ sinks_' = Append(sinks_, sink)
    /\ UNCHANGED << restVars, lockVars, threshold_, subscribers_, next_sub_id_, last_set,
                    n_setlevel, handles, unsubscribed, raised_over, qVars, wVars, pVars, mVars >>

\* AsyncLogger::removeSink
removeSink(sink) ==
    /\ sinks_' = removeValue(sinks_, sink)
    /\ UNCHANGED << restVars, lockVars, threshold_, subscribers_, next_sub_id_, last_set,
                    n_setlevel, handles, unsubscribed, raised_over, qVars, wVars, pVars, mVars >>

\* AsyncLogger::subscribe: returns next_sub_id_++
subscribe ==
    /\ next_sub_id_ <= MaxSubs
    /\ subscribers_' = subscribers_ \cup {next_sub_id_}
    /\ next_sub_id_' = next_sub_id_ + 1
    /\ handles' = Append(handles, next_sub_id_)
    /\ UNCHANGED << restVars, lockVars, threshold_, sinks_, last_set, n_setlevel, unsubscribed,
                    raised_over, qVars, wVars, pVars, mVars >>

\* the value setLevel(lvl) stores in threshold_, line 448
storedLevel(lvl) == lvl

\* the records accepted and not yet passed to every sink of their snapshot
pending ==
    Range(queue_) \cup
    (IF w_pc = "snapshot" \/ (w_pc = "deliver" /\ w_i <= Len(w_copy)) THEN {w_it} ELSE {})

\* the record of the latest log() call, when it is pending and below lvl
raisedOver(lvl) ==
    IF last_call.id \in pending /\ last_call.level < lvl THEN {last_call.id} ELSE {}

\* mutant of setLevel: the new threshold is applied to the queue as well,
\* which is emptied
setLevelPurging(lvl) ==
    /\ n_setlevel < MaxSetLevel
    /\ n_setlevel' = n_setlevel + 1
    /\ threshold_' = storedLevel(lvl)
    /\ last_set' = lvl
    /\ raised_over' = raised_over \cup raisedOver(lvl)
    /\ queue_' = << >>
    /\ UNCHANGED << restVars, lockVars, sinks_, subscribers_, next_sub_id_, handles, unsubscribed,
                    accepted, evicted, dequeued, q_hit_max, wVars, pVars, mVars >>

\* AsyncLogger::setLevel
setLevel(lvl) ==
    /\ n_setlevel < MaxSetLevel
    /\ n_setlevel' = n_setlevel + 1
    /\ threshold_' = storedLevel(lvl)
    /\ last_set' = lvl
    /\ raised_over' = raised_over \cup raisedOver(lvl)
    /\ UNCHANGED << restVars, lockVars, sinks_, subscribers_, next_sub_id_, handles, unsubscribed,
                    qVars, wVars, pVars, mVars >>

\* mutant of belowThreshold: <= instead of <
belowOrAtThreshold(level) == level <= threshold_

\* the threshold test of log(), line 339
belowThreshold(level) == level < threshold_

\* AsyncLogger::log, lines 338-346: threshold filter, then build the record
LogFilter(p) ==
    /\ p_pc[p] = "idle"
    /\ n_calls < MaxLogs
    /\ n_calls' = n_calls + 1
    /\ \E level \in LogLevels :
        /\ last_call' = [id |-> n_calls + 1, level |-> level, thr |-> last_set]
        /\ IF belowThreshold(level)
           THEN /\ dropped' = dropped \cup {n_calls + 1}
                /\ UNCHANGED << p_pc, p_rec >>
           ELSE /\ p_rec' = [p_rec EXCEPT ![p] = n_calls + 1]
                /\ p_pc' = [p_pc EXCEPT ![p] = "enqueue"]
                /\ UNCHANGED dropped
    /\ UNCHANGED << restVars, lockVars, p_subs, cb_last, p_snap, p_inv, cfgVars, qVars, wVars, mVars >>

\* mutant of pushBounded: no eviction at capacity
pushUnbounded(q, rec) == Append(q, rec)

\* mutant of pushBounded: pop_back instead of pop_front at capacity
pushDropNewest(q, rec) ==
    IF Len(q) >= max_queue_size_ THEN Append(Front(q), rec) ELSE Append(q, rec)

\* mutant of pushBounded: push_front instead of push_back
pushAtFront(q, rec) ==
    IF Len(q) >= max_queue_size_ THEN << rec >> \o Tail(q) ELSE << rec >> \o q

\* the queue after the locked block of log(), lines 349-354: drop the oldest
\* entry when the queue is at capacity, then push_back
pushBounded(q, rec) ==
    IF Len(q) >= max_queue_size_ THEN Append(Tail(q), rec) ELSE Append(q, rec)

\* AsyncLogger::log, lines 348-356: enqueue under q_mtx_, notify_one
LogEnqueue(p) ==
    /\ p_pc[p] = "enqueue"
    /\ queue_' = pushBounded(queue_, p_rec[p])
    /\ evicted' = evicted \o SelectSeq(queue_, LAMBDA r : r \notin Range(queue_'))
    /\ accepted' = Append(accepted, p_rec[p])
    /\ q_hit_max' = (q_hit_max \/ Len(queue_') >= max_queue_size_)
    /\ p_pc' = [p_pc EXCEPT ![p] = "snapshot"]
    /\ q_cv_' = notified
    /\ UNCHANGED << restVars, q_mtx_, q_race, dequeued, p_rec, p_subs, n_calls, last_call, dropped,
                    cb_last, p_snap, p_inv,
                    cfgVars, wVars, mVars >>

\* AsyncLogger::log, line 349: lock_guard lg(q_mtx_) acquired
LogLock(p) ==
    /\ p_pc[p] = "enqueue"
    /\ q_mtx_ = "free"
    /\ q_mtx_' = p
    /\ p_pc' = [p_pc EXCEPT ![p] = "locked"]
    /\ UNCHANGED << restVars, q_race, q_cv_, p_rec, p_subs, n_calls, last_call, dropped, cb_last,
                    p_snap, p_inv,
                    cfgVars, qVars, wVars, mVars >>

\* AsyncLogger::log, lines 350-356: the push of LogEnqueue by the holder of
\* q_mtx_, which the closing brace releases; notify_one
LogPush(p) ==
    /\ p_pc[p] = "locked"
    /\ q_mtx_ = p
    /\ queue_' = pushBounded(queue_, p_rec[p])
    /\ evicted' = evicted \o SelectSeq(queue_, LAMBDA r : r \notin Range(queue_'))
    /\ accepted' = Append(accepted, p_rec[p])
    /\ q_hit_max' = (q_hit_max \/ Len(queue_') >= max_queue_size_)
    /\ q_mtx_' = "free"
    /\ p_pc' = [p_pc EXCEPT ![p] = "snapshot"]
    /\ q_cv_' = notified
    /\ UNCHANGED << restVars, q_race, dequeued, p_rec, p_subs, n_calls, last_call, dropped,
                    cb_last, p_snap, p_inv, cfgVars, wVars, mVars >>

\* AsyncLogger::log, lines 359-364: copy the subscribers under subs_mtx_
LogSnapshot(p) ==
    /\ p_pc[p] = "snapshot"
    /\ p_subs' = [p_subs EXCEPT ![p] = subscribers_]
    /\ p_pc' = [p_pc EXCEPT ![p] = "fanout"]
    /\ p_snap' = [p_snap EXCEPT ![p] = subscribers_]
    /\ p_inv' = [p_inv EXCEPT ![p] = << >>]
    /\ UNCHANGED << restVars, lockVars, p_rec, n_calls, last_call, dropped, cb_last,
                    cfgVars, qVars, wVars, mVars >>

\* thread t touches queue_ without holding q_mtx_ while another thread holds
\* it, i.e. is inside its push or pop block (lines 366 and 381 take no lock)
unlockedAccess(t) == q_mtx_ \notin {"free", t}

\* what queue_.back().rec yields at line 366, read without q_mtx_: the newest
\* queued record, or, on an empty deque, a stale slot or garbage
queueBack == IF queue_ # << >> THEN {Last(queue_)} ELSE Range(accepted) \cup {Garbage}

\* mutant of afterCallbackThrow: the exception leaves log()
throwPropagates == "exception"

\* where log() stands after a callback that threw: catch (...) at line 366
\* swallows the exception and the for loop goes on
afterCallbackThrow == "fanout"

\* AsyncLogger::log, lines 365-367: one subscriber callback of the snapshot
\* (in the order of the copy, which unordered_map iteration leaves
\* unspecified), which returns or throws
invokeSubscriber(p, threw) ==
    /\ p_pc[p] = "fanout"
    /\ p_subs[p] # {}
    /\ \E sub \in p_subs[p], got \in queueBack :
        /\ p_subs' = [p_subs EXCEPT ![p] = @ \ {sub}]
        /\ cb_last' = [sub |-> sub, own |-> p_rec[p], got |-> got]
        /\ p_inv' = [p_inv EXCEPT ![p] = Append(@, [sub |-> sub, threw |-> threw])]
    /\ p_pc' = [p_pc EXCEPT ![p] = IF threw THEN afterCallbackThrow ELSE @]
    /\ q_race' = (q_race \/ unlockedAccess(p))
    /\ UNCHANGED << restVars, q_mtx_, q_cv_, p_rec, n_calls, last_call, dropped, p_snap,
                    cfgVars, qVars, wVars, mVars >>

\* a callback that returns
LogCallback(p) == invokeSubscriber(p, FALSE)

\* a callback that throws
LogCallbackThrows(p) == invokeSubscriber(p, TRUE)

\* AsyncLogger::log, line 368: return once every subscriber has been called
LogReturn(p) ==
    /\ p_pc[p] = "fanout"
    /\ p_subs[p] = {}
    /\ p_pc' = [p_pc EXCEPT ![p] = "idle"]
    /\ p_snap' = [p_snap EXCEPT ![p] = {}]
    /\ p_inv' = [p_inv EXCEPT ![p] = << >>]
    /\ UNCHANGED << restVars, lockVars, p_rec, p_subs, n_calls, last_call, dropped, cb_last,
                    cfgVars, qVars, wVars, mVars >>

\* mutant of keepLooping: the loop ends as soon as running_ is cleared
keepLoopingWhileRunning == running_

\* the loop condition of workerThreadMain, line 381
keepLooping == running_ \/ queue_ # << >>

\* workerThreadMain, line 381: the loop condition (queue_ read without q_mtx_)
WorkerLoop ==
    /\ w_pc = "loop"
    /\ w_pc' = IF keepLooping THEN "wait" ELSE "flush"
    /\ q_race' = (q_race \/ (~running_ /\ unlockedAccess("worker")))
    /\ UNCHANGED << restVars, q_mtx_, q_cv_, w_it, w_copy, w_i, consumed, fault_at, snaps, flushed, cfgVars, qVars, pVars, mVars >>

\* mutant of dequeueItem: back() instead of front()
dequeueNewest(q) == Last(q)

\* the record the worker takes from the queue, line 389
dequeueItem(q) == Head(q)

\* workerThreadMain, lines 383-391: wait_for returns on the predicate or after
\* 200 ms; an empty queue continues the loop, otherwise the front is popped
WorkerWait ==
    /\ w_pc = "wait"
    /\ IF queue_ = << >>
       THEN /\ w_pc' = "loop"
            /\ UNCHANGED << queue_, w_it, dequeued >>
       ELSE /\ w_it' = dequeueItem(queue_)
            /\ queue_' = Tail(queue_)
            /\ dequeued' = Append(dequeued, dequeueItem(queue_))
            /\ w_pc' = "snapshot"
    /\ UNCHANGED << restVars, lockVars, accepted, evicted, q_hit_max, w_copy, w_i, consumed, fault_at,
                    snaps, flushed,
                    cfgVars, pVars, mVars >>

\* lines 388-390, after wait_for has returned: an empty queue continues the
\* loop, otherwise the front is popped
popOrContinue ==
    IF queue_ = << >>
    THEN /\ w_pc' = "loop"
         /\ UNCHANGED << queue_, w_it, dequeued >>
    ELSE /\ w_it' = dequeueItem(queue_)
         /\ queue_' = Tail(queue_)
         /\ dequeued' = Append(dequeued, dequeueItem(queue_))
         /\ w_pc' = "snapshot"

\* the predicate of wait_for, line 386
waitPredicate == ~running_ \/ queue_ # << >>

\* workerThreadMain, lines 384-390: with q_mtx_ taken, wait_for tests its
\* predicate first; when it holds the block runs on to its end, when not the
\* worker is about to wait, still holding q_mtx_
WorkerPred ==
    /\ w_pc = "wait"
    /\ q_mtx_ = "free"
    /\ IF waitPredicate
       THEN popOrContinue /\ UNCHANGED q_mtx_
       ELSE /\ w_pc' = "blocking"
            /\ q_mtx_' = "worker"
            /\ UNCHANGED << queue_, w_it, dequeued >>
    /\ UNCHANGED << restVars, q_race, q_cv_, accepted, evicted, q_hit_max, w_copy, w_i, consumed,
                    fault_at, snaps, flushed, cfgVars, pVars, mVars >>

\* line 385: the wait itself, which releases q_mtx_ and blocks on q_cv_; only
\* from here on does a notification reach the worker
WorkerBlock ==
    /\ w_pc = "blocking"
    /\ q_mtx_ = "worker"
    /\ w_pc' = "blocked"
    /\ q_mtx_' = "free"
    /\ q_cv_' = FALSE
    /\ UNCHANGED << restVars, q_race, w_it, w_copy, w_i, consumed, fault_at, snaps, flushed,
                    cfgVars, qVars, pVars, mVars >>

\* mutant of timedOut: a wait without a timeout
neverTimesOut == FALSE

\* the 200 ms of wait_for, line 385, elapse
timedOut == TRUE

\* workerThreadMain, lines 385-390: the blocked worker is woken by a
\* notification, and blocks again when the predicate is still false, or its
\* 200 ms run out and wait_for returns whatever the predicate is; either way
\* it takes q_mtx_ again, and gives it up at the end of the block
WorkerWake ==
    /\ w_pc = "blocked"
    /\ q_mtx_ = "free"
    /\ \E timeout \in BOOLEAN :
        /\ IF timeout THEN timedOut ELSE q_cv_
        /\ IF timeout \/ waitPredicate
           THEN popOrContinue
           ELSE UNCHANGED << w_pc, queue_, w_it, dequeued >>
    /\ q_cv_' = FALSE
    /\ UNCHANGED << restVars, q_mtx_, q_race, accepted, evicted, q_hit_max, w_copy, w_i, consumed,
                    fault_at, snaps, flushed, cfgVars, pVars, mVars >>

\* workerThreadMain, lines 384-387: unique_lock lk(q_mtx_) acquired; wait_for
\* gives the lock up while it waits and holds it again when it returns
WorkerLock ==
    /\ w_pc = "wait"
    /\ q_mtx_ = "free"
    /\ q_mtx_' = "worker"
    /\ w_pc' = "locked"
    /\ UNCHANGED << restVars, q_race, q_cv_, w_it, w_copy, w_i, consumed, fault_at,
                    snaps, flushed,
                    cfgVars, qVars, pVars, mVars >>

\* mutant of lockAfterPop: the lock is held on into the delivery
lockKeptAfterPop == "worker"

\* q_mtx_ once the block of lines 383-391 is left (continue or closing brace)
lockAfterPop == "free"

\* workerThreadMain, lines 388-391: the pop of WorkerWait by the holder of q_mtx_
WorkerPop ==
    /\ w_pc = "locked"
    /\ q_mtx_ = "worker"
    /\ q_mtx_' = lockAfterPop
    /\ IF queue_ = << >>
       THEN /\ w_pc' = "loop"
            /\ UNCHANGED << queue_, w_it, dequeued >>
       ELSE /\ w_it' = dequeueItem(queue_)
            /\ queue_' = Tail(queue_)
            /\ dequeued' = Append(dequeued, dequeueItem(queue_))
            /\ w_pc' = "snapshot"
    /\ UNCHANGED << restVars, q_race, q_cv_, accepted, evicted, q_hit_max, w_copy, w_i, consumed,
                    fault_at, snaps, flushed, cfgVars, pVars, mVars >>

\* mutant of sinksCopy: the copy of the first record is kept for the later ones
sinksCopyOnce == IF snaps = << >> THEN sinks_ ELSE w_copy

\* sinks_copy = sinks_, line 396
sinksCopy == sinks_

\* workerThreadMain, lines 393-397: copy the sink list under sinks_mtx_
WorkerSnapshot ==
    /\ w_pc = "snapshot"
    /\ w_copy' = sinksCopy
    /\ w_i' = 1
    /\ w_pc' = "deliver"
    /\ snaps' = Append(snaps, [rec |-> w_it, copy |-> sinksCopy, registered |-> sinks_])
    /\ UNCHANGED << restVars, lockVars, w_it, consumed, fault_at, flushed, cfgVars, qVars, pVars, mVars >>

\* mutant of afterFault: the exception leaves the for loop over the sinks
afterFaultEscapes == "loop"

\* where the worker stands after a consume() call that threw: the catch (...)
\* of lines 403-405 swallows the exception and the for loop goes on
afterFault == "deliver"

\* workerThreadMain, lines 400-406: consume() of the next sink of the snapshot,
\* which returns or throws; after the last sink the while loop starts over
WorkerDeliver ==
    /\ w_pc = "deliver"
    /\ IF w_i > Len(w_copy)
       THEN /\ w_pc' = "loop"
            /\ UNCHANGED << w_i, consumed, fault_at >>
       ELSE /\ consumed' = [consumed EXCEPT ![w_copy[w_i]] = Append(@, w_it)]
            /\ w_i' = w_i + 1
            /\ \E threw \in BOOLEAN :
                IF threw
                THEN /\ fault_at' = IF fault_at = None
                                    THEN [sink |-> w_copy[w_i], rec |-> w_it]
                                    ELSE fault_at
                     /\ w_pc' = afterFault
                ELSE UNCHANGED << fault_at, w_pc >>
    /\ UNCHANGED << restVars, lockVars, w_it, w_copy, snaps, flushed, cfgVars, qVars, pVars, mVars >>

\* workerThreadMain, line 408, and AsyncLogger::flush, lines 370-378: on
\* leaving the loop, flush() of every sink of a copy of sinks_; then return
WorkerFlush ==
    /\ w_pc = "flush"
    /\ w_pc' = "done"
    /\ flushed' = sinks_
    /\ UNCHANGED << restVars, lockVars, w_it, w_copy, w_i, consumed, fault_at, snaps, cfgVars, qVars, pVars, mVars >>

Log(p) == LogFilter(p) \/ LogEnqueue(p) \/ LogSnapshot(p) \/ LogCallback(p) \/ LogReturn(p)

\* the worker while running_ stays set: the loop never exits
Dispatch == WorkerLoop \/ WorkerWait \/ WorkerSnapshot \/ WorkerDeliver


(* ------------------------ InMemorySink::Ring --------------------------- *)
Min(a, b) == IF a <= b THEN a ELSE b

\* the last n elements of a sequence
LastOf(s, n) == SubSeq(s, Len(s) - n + 1, Len(s))

Sessions == {"A", "B"}
NoSession == "none"

\* a default-constructed LogRecord (what vector::resize fills in): no session id
DefaultRec == [id |-> 0, session |-> NoSession]
\* what a read past the end of buf_ yields
OutOfRange == [id |-> -1, session |-> NoSession]

\* buf_[i], the vector being indexed from 0
At(buf, i) == IF i + 1 \in DOMAIN buf THEN buf[i + 1] ELSE OutOfRange

\* Ring::Ring(cap): empty vector (reserve does not change its size)
RingNew(cap) == [buf |-> << >>, head |-> 0, size |-> 0, capacity |-> cap]

\* mutant of RingPush: the overwrite branch does not advance head_
RingPushNoAdvance(r, rec) ==
    IF r.capacity = 0 THEN r
    ELSE IF r.size < r.capacity
         THEN [r EXCEPT !.buf = Append(@, rec), !.size = @ + 1,
                        !.head = (@ + 1) % r.capacity]
         ELSE [r EXCEPT !.buf = [@ EXCEPT ![r.head + 1] = rec]]

\* Ring::push
RingPush(r, rec) ==
    IF r.capacity = 0 THEN r
    ELSE IF r.size < r.capacity
         THEN [r EXCEPT !.buf = Append(@, rec), !.size = @ + 1,
                        !.head = (@ + 1) % r.capacity]
         ELSE [r EXCEPT !.buf = [@ EXCEPT ![r.head + 1] = rec],
                        !.head = (@ + 1) % r.capacity]

\* Ring::lastN
RingLastN(r, n) ==
    IF r.size = 0 THEN << >>
    ELSE LET m     == Min(n, r.size)
             start == (r.head + r.capacity - r.size) % r.capacity
             idx   == (start + (r.size - m)) % r.capacity
         IN  [i \in 1..m |-> At(r.buf, (idx + (i - 1)) % r.capacity)]

\* Ring::clear: buf_.clear(); buf_.resize(capacity_); head_ = size_ = 0
RingClear(r) ==
    [r EXCEPT !.buf = [i \in 1..r.capacity |-> DefaultRec], !.head = 0, !.size = 0]

(* --------------------------- InMemorySink ------------------------------ *)
\* InMemorySink::InMemorySink(global_capacity, per_session_capacity)
MemInit(global_capacity, per_session_capacity) ==
    /\ global_ = RingNew(global_capacity)
    /\ per_session_capacity_ = per_session_capacity
    /\ sessions_ = [s \in {} |-> RingNew(0)]
    /\ g_hist = << >>
    /\ g_cleared = FALSE
    /\ s_hist = [s \in Sessions |-> << >>]

\* mutant of pushSession: a record of a session without a ring is not stored
pushSessionNoCreate(m, rec) ==
    IF rec.session \notin DOMAIN m THEN m
    ELSE [s \in DOMAIN m |-> IF s = rec.session THEN RingPush(m[s], rec) ELSE m[s]]

\* the session map after lines 142-150 of consume(): the ring of the record's
\* session id is created on first use and the record is pushed to it
pushSession(m, rec) ==
    IF rec.session = NoSession THEN m
    ELSE LET ring == IF rec.session \in DOMAIN m THEN m[rec.session]
                     ELSE RingNew(per_session_capacity_)
         IN  [s \in DOMAIN m \cup {rec.session} |->
                 IF s = rec.session THEN RingPush(ring, rec) ELSE m[s]]

\* InMemorySink::consume
MemConsume ==
    /\ Len(g_hist) < MaxConsume
    /\ \E sid \in Sessions \cup {NoSession} :
        LET rec == [id |-> Len(g_hist) + 1, session |-> sid] IN
        /\ global_' = RingPush(global_, rec)
        /\ sessions_' = pushSession(sessions_, rec)
        /\ g_hist' = Append(g_hist, rec)
        /\ s_hist' = IF sid = NoSession THEN s_hist
                     ELSE [s_hist EXCEPT ![sid] = Append(@, rec)]
    /\ UNCHANGED << per_session_capacity_, g_cleared, loggerVars, rotVars, srvVars >>

\* InMemorySink::recentGlobal
recentGlobal(n) == RingLastN(global_, n)

\* InMemorySink::recentForSession
recentForSession(session_id, n) ==
    IF session_id \notin DOMAIN sessions_ THEN << >>
    ELSE RingLastN(sessions_[session_id], n)

\* one line of exportSession(), lines 168-178: timestamp, level, thread id and
\* message of the record, not its session id
formatLine(rec) == << "line", rec.id >>

\* InMemorySink::exportSession: recentForSession(session_id, SIZE_MAX), one
\* formatted line per record (lastN cuts n down to the ring's size)
exportSession(session_id) ==
    LET recs == recentForSession(session_id, MaxCap + MaxConsume)
    IN  [i \in 1..Len(recs) |-> formatLine(recs[i])]

\* mutant of eraseSession: sessions_.clear()
eraseEverySession(m, session_id) == [s \in {} |-> RingNew(0)]

\* mutant of eraseSession: the ring is cleared and kept instead of erased
clearSessionRing(m, session_id) ==
    [s \in DOMAIN m |-> IF s = session_id THEN RingClear(m[s]) ELSE m[s]]

\* sessions_.erase(session_id), line 185
eraseSession(m, session_id) == [s \in DOMAIN m \ {session_id} |-> m[s]]

\* InMemorySink::clearSession
MemClearSession(session_id) ==
    /\ sessions_' = eraseSession(sessions_, session_id)
    /\ s_hist' = [s_hist EXCEPT ![session_id] = << >>]
    /\ UNCHANGED << global_, per_session_capacity_, g_hist, g_cleared, loggerVars, rotVars, srvVars >>

\* InMemorySink::clearAll
MemClearAll ==
    /\ global_' = RingClear(global_)
    /\ sessions_' = [s \in {} |-> RingNew(0)]
    /\ g_hist' = << >>
    /\ g_cleared' = TRUE
    /\ s_hist' = [s \in Sessions |-> << >>]
    /\ UNCHANGED << per_session_capacity_, loggerVars, rotVars, srvVars >>

(* ------------------------- RotatingFileSink ---------------------------- *)
\* file indices that can come to exist: base.0.log .. base.(max_files).log
FileIdx == 0..(MaxRetention + 1)

Absent == [exists |-> FALSE, data |-> << >>]
EmptyFile == [exists |-> TRUE, data |-> << >>]

NoWrite == [rec |-> [id |-> 0, len |-> 0], pre_fp |-> "null", pre_size |-> 0,
            pre_fs |-> [i \in FileIdx |-> Absent]]

\* RotatingFileSink::RotatingFileSink: create_directories(parent_path), line
\* 202, throws std::filesystem::filesystem_error when the directory cannot be
\* made (so does an empty parent path), and the constructor is left by that
\* exception; otherwise fopen(base.0.log, "a") creates the file or keeps what
\* it holds, and current_size_ is its size; when fopen fails the sink writes
\* to stdout
RotInit ==
    /\ max_bytes_ \in 1..MaxBytes
    /\ max_files_ \in 0..MaxRetention
    /\ \E old \in 0..(MaxBytes + 1), dir_made \in BOOLEAN, opened \in BOOLEAN :
        LET found == IF old = 0 THEN Absent
                     ELSE [exists |-> TRUE, data |-> << [id |-> 0, len |-> old] >>]
        IN  IF ~dir_made
            THEN /\ ~opened /\ old = 0
                 /\ fp_ = "unconstructed"
                 /\ fs = [i \in FileIdx |-> Absent]
                 /\ current_size_ = 0
            ELSE IF opened
            THEN /\ fp_ = "file"
                 /\ fs = [i \in FileIdx |-> IF i = 0 THEN [found EXCEPT !.exists = TRUE]
                                            ELSE Absent]
                 /\ current_size_ = old
            ELSE /\ fp_ = "stdout"
                 /\ fs = [i \in FileIdx |-> IF i = 0 THEN found ELSE Absent]
                 /\ current_size_ = 0
    /\ out_stdout = << >>
    /\ n_writes = 0
    /\ rot_last = NoWrite

\* a RotatingFileSink that is not part of the scenario: never written to
RotIdle ==
    /\ max_bytes_ = MaxBytes
    /\ max_files_ = MaxRetention
    /\ fp_ = "file"
    /\ fs = [i \in FileIdx |-> IF i = 0 THEN EmptyFile ELSE Absent]
    /\ current_size_ = 0
    /\ out_stdout = << >>
    /\ n_writes = 0
    /\ rot_last = NoWrite

\* mutant of needsRotation: >= instead of >
needsRotationAtLimit(nextWriteBytes) ==
    /\ fp_ = "file"
    /\ current_size_ + nextWriteBytes >= max_bytes_

\* mutant of needsRotation: the size of the pending write is left out
needsRotationLate(nextWriteBytes) ==
    /\ fp_ = "file"
    /\ current_size_ > max_bytes_

\* rotateIfNeeded, lines 215-216: the two early returns, negated
needsRotation(nextWriteBytes) ==
    /\ fp_ = "file"
    /\ current_size_ + nextWriteBytes > max_bytes_

\* rotateIfNeeded, lines 223-235: for i = max_files_ - 1 down to 0, rename
\* base.i.log to base.(i+1).log when it exists (rename replaces the target)
RECURSIVE shiftFiles(_, _)
shiftFiles(f, i) ==
    IF i < 0 THEN f
    ELSE IF f[i].exists
         THEN shiftFiles([f EXCEPT ![i + 1] = f[i], ![i] = Absent], i - 1)
         ELSE shiftFiles(f, i - 1)

\* RotatingFileSink::consume: format, rotateIfNeeded, fall back to stdout when
\* fp_ is null, fwrite, count the bytes; len is the formatted length
RotConsume(len) ==
    /\ fp_ # "unconstructed"
    /\ n_writes < MaxWrites
    /\ n_writes' = n_writes + 1
    /\ LET rec == [id |-> n_writes + 1, len |-> len] IN
       \E reopened \in BOOLEAN :
        LET rotate == needsRotation(len)
            shifted == IF rotate THEN shiftFiles(fs, max_files_ - 1) ELSE fs
            \* fopen(base.0.log, "w"): an empty file, or null
            fs1 == IF rotate /\ reopened THEN [shifted EXCEPT ![0] = EmptyFile]
                   ELSE shifted
            fp1 == IF rotate THEN (IF reopened THEN "file" ELSE "null") ELSE fp_
            size1 == IF rotate THEN 0 ELSE current_size_
            fp2 == IF fp1 = "null" THEN "stdout" ELSE fp1
        IN  /\ (~rotate => reopened)
            /\ fp_' = fp2
            /\ fs' = IF fp2 = "file" THEN [fs1 EXCEPT ![0].data = Append(@, rec)]
                     ELSE fs1
            /\ out_stdout' = IF fp2 = "stdout" THEN Append(out_stdout, rec)
                             ELSE out_stdout
            /\ current_size_' = size1 + len
            /\ rot_last' = [rec |-> rec, pre_fp |-> fp_, pre_size |-> current_size_,
                            pre_fs |-> fs]
    /\ UNCHANGED << max_bytes_, max_files_, loggerVars, memVars, srvVars >>

(* ------------------------------- Store --------------------------------- *)
Keys == {"k1", "k2"}
Values == {"v1", "v2"}

\* an empty std::unordered_map
EmptyMap == [x \in {} |-> {}]

\* value_to_keys_[value].erase(key), and the entry erased when left empty
unindex(v2k, key, value) ==
    LET left == (IF value \in DOMAIN v2k THEN v2k[value] ELSE {}) \ {key}
    IN  IF left = {} THEN [x \in DOMAIN v2k \ {value} |-> v2k[x]]
        ELSE [x \in DOMAIN v2k \cup {value} |-> IF x = value THEN left ELSE v2k[x]]

\* value_to_keys_[value].insert(key)
index(v2k, key, value) ==
    [x \in DOMAIN v2k \cup {value} |->
        IF x = value THEN (IF value \in DOMAIN v2k THEN v2k[value] ELSE {}) \cup {key}
        ELSE v2k[x]]

\* Store::put: the maps after the call
StorePut(kv, v2k, key, value) ==
    LET v2k1 == IF key \in DOMAIN kv THEN unindex(v2k, key, kv[key]) ELSE v2k
    IN  [kv  |-> [x \in DOMAIN kv \cup {key} |-> IF x = key THEN value ELSE kv[x]],
         v2k |-> index(v2k1, key, value)]

\* Store::update, for a key that is present
StoreUpdate(kv, v2k, key, new_value) ==
    [kv  |-> [kv EXCEPT ![key] = new_value],
     v2k |-> index(unindex(v2k, key, kv[key]), key, new_value)]

\* Store::remove, for a key that is present
StoreRemove(kv, v2k, key) ==
    [kv  |-> [x \in DOMAIN kv \ {key} |-> kv[x]],
     v2k |-> unindex(v2k, key, kv[key])]

\* Store::getKeyByValue: the keys it may return (*begin() of an unordered_set),
\* none when it returns std::nullopt
getKeyByValue(value) ==
    IF value \in DOMAIN value_to_keys_ /\ value_to_keys_[value] # {}
    THEN value_to_keys_[value] ELSE {}

\* what a Store call was given and returned; put() returns nothing (TRUE here)
StoreCall(op, key, had, ret) == [op |-> op, key |-> key, had |-> had, ret |-> ret]

NoStoreCall == StoreCall("", "", FALSE, FALSE)

(* ------------------------------- Server -------------------------------- *)
Clients == {"c1", "c2"}

\* the first token of a request line; "PING" stands for any other word
Commands == {"PUT", "GET", "GET_KEY", "DELETE", "UPDATE", "SHUTDOWN", "PING"}

Resp(tag, arg) == [tag |-> tag, arg |-> arg]

NoCommand == [cmd |-> "", arg |-> "", resp |-> Resp("", "")]

\* Server::Server and Store(): nothing listening, no client, empty maps
ServerInit ==
    /\ shutdown_requested_ = FALSE
    /\ server_fd_ = "closed"
    /\ run_pc = "new"
    /\ conn = [c \in Clients |-> "none"]
    /\ kv_store_ = EmptyMap
    /\ value_to_keys_ = EmptyMap
    /\ srv_last = NoCommand
    /\ update_count = 0
    /\ delete_count = 0
    /\ st_last = NoStoreCall

\* Server::run, lines 120-146: socket, setsockopt, bind, listen; any of them
\* failing returns from run()
RunListen ==
    /\ run_pc = "new"
    /\ \E ok \in BOOLEAN :
        IF ok THEN server_fd_' = "open" /\ run_pc' = "accept"
        ELSE UNCHANGED server_fd_ /\ run_pc' = "returned"
    /\ UNCHANGED << shutdown_requested_, conn, kv_store_, value_to_keys_, srv_last,
                    statVars, bufVars, ordVars, loggerVars, memVars, rotVars >>

\* Server::run, lines 150-163: accept() returns a connection of client c and a
\* handleClient thread is started for it
RunAccept(c) ==
    /\ run_pc = "accept"
    /\ ~shutdown_requested_
    /\ server_fd_ = "open"
    /\ conn[c] = "none"
    /\ conn' = [conn EXCEPT ![c] = "serving"]
    /\ UNCHANGED << shutdown_requested_, server_fd_, run_pc, kv_store_, value_to_keys_,
                    srv_last, statVars, bufVars, ordVars, loggerVars, memVars, rotVars >>

\* Server::run, lines 150-158: the loop ends once shutdown is requested (the
\* loop condition, or accept() failing on the closed socket)
RunStopAccepting ==
    /\ run_pc = "accept"
    /\ shutdown_requested_
    /\ run_pc' = "joining"
    /\ UNCHANGED << shutdown_requested_, server_fd_, conn, kv_store_, value_to_keys_,
                    srv_last, statVars, bufVars, ordVars, loggerVars, memVars, rotVars >>

\* Server::run, lines 165-173: join() every handleClient thread, then return
RunJoin ==
    /\ run_pc = "joining"
    /\ \A c \in Clients : conn[c] # "serving"
    /\ run_pc' = "returned"
    /\ UNCHANGED << shutdown_requested_, server_fd_, conn, kv_store_, value_to_keys_,
                    srv_last, statVars, bufVars, ordVars, loggerVars, memVars, rotVars >>

\* the branch of handleClient taken for a command word, lines 64-114; GET_KEY
\* has no branch (lines 76-93 are a comment) and takes the final else
dispatch(cmd) == IF cmd \in {"PUT", "GET", "DELETE", "UPDATE", "SHUTDOWN"} THEN cmd ELSE "unknown"

\* Server::requestShutdown: set the flag, shut down and close the listening socket
requestShutdownFd(fd) == "closed"

\* Server::handleClient, one pass of its loop for a request of client c: recv,
\* parse, act on the store, send the response; SHUTDOWN closes the connection,
\* calls requestShutdown() and ends the thread
HandleCommand(c) ==
    /\ conn[c] = "serving"
    /\ \E cmd \in Commands, key \in Keys, value \in Values :
        LET branch  == dispatch(cmd)
            present == key \in DOMAIN kv_store_
            store1  == IF branch = "PUT" THEN StorePut(kv_store_, value_to_keys_, key, value)
                       ELSE IF branch = "UPDATE" /\ present
                            THEN StoreUpdate(kv_store_, value_to_keys_, key, value)
                       ELSE IF branch = "DELETE" /\ present
                            THEN StoreRemove(kv_store_, value_to_keys_, key)
                       ELSE [kv |-> kv_store_, v2k |-> value_to_keys_]
            resp    == CASE branch = "PUT" -> Resp("OK", "")
                         [] branch = "GET" -> IF present THEN Resp("VALUE", kv_store_[key])
                                              ELSE Resp("NOT_FOUND", "")
                         [] branch = "DELETE" -> IF present THEN Resp("DELETED", "")
                                                 ELSE Resp("NOT_FOUND", "")
                         [] branch = "UPDATE" -> IF present THEN Resp("UPDATED", "")
                                                 ELSE Resp("NOT_FOUND", "")
                         [] branch = "SHUTDOWN" -> Resp("SHUTTING_DOWN", "")
                         [] OTHER -> Resp("ERROR_UNKNOWN_COMMAND", "")
        IN  /\ (branch = "UPDATE" /\ present) => update_count < MaxCount
            /\ (branch = "DELETE" /\ present) => delete_count < MaxCount
            /\ kv_store_' = store1.kv
            /\ value_to_keys_' = store1.v2k
            /\ update_count' = IF branch = "UPDATE" /\ present THEN update_count + 1
                               ELSE update_count
            /\ delete_count' = IF branch = "DELETE" /\ present THEN delete_count + 1
                               ELSE delete_count
            /\ st_last' = CASE branch = "PUT" -> StoreCall("put", key, present, TRUE)
                             [] branch = "UPDATE" -> StoreCall("update", key, present, present)
                             [] branch = "DELETE" -> StoreCall("remove", key, present, present)
                             [] OTHER -> st_last
            /\ srv_last' = [cmd |-> cmd, arg |-> IF cmd = "GET_KEY" THEN value ELSE key,
                            resp |-> resp]
            /\ IF branch = "SHUTDOWN"
               THEN /\ conn' = [conn EXCEPT ![c] = "closed"]
                    /\ shutdown_requested_' = TRUE
                    /\ server_fd_' = requestShutdownFd(server_fd_)
               ELSE UNCHANGED << conn, shutdown_requested_, server_fd_ >>
    /\ UNCHANGED << run_pc, bufVars, ordVars, loggerVars, memVars, rotVars >>

\* Server::handleClient, lines 52-56: recv() returns <= 0 once the client has
\* closed its connection; the thread closes its socket and returns
ClientCloses(c) ==
    /\ conn[c] = "serving"
    /\ conn' = [conn EXCEPT ![c] = "closed"]
    /\ UNCHANGED << shutdown_requested_, server_fd_, run_pc, kv_store_, value_to_keys_,
                    srv_last, statVars, bufVars, ordVars, loggerVars, memVars, rotVars >>

(* ------------------- Store, called directly (Store.hpp) ---------------- *)
\* the members of Server and the observation of its commands
netVars == << shutdown_requested_, server_fd_, run_pc, conn, srv_last >>

\* Store::put
put(key, value) ==
    LET s == StorePut(kv_store_, value_to_keys_, key, value)
    IN  /\ kv_store_' = s.kv
        /\ value_to_keys_' = s.v2k
        /\ st_last' = StoreCall("put", key, key \in DOMAIN kv_store_, TRUE)
        /\ UNCHANGED << update_count, delete_count, netVars, bufVars, ordVars, loggerVars, memVars,
                        rotVars >>

\* Store::update: false for a key that is not in kv_store_, before anything
\* is touched
update(key, new_value) ==
    LET present == key \in DOMAIN kv_store_
        s == StoreUpdate(kv_store_, value_to_keys_, key, new_value)
    IN  /\ present => update_count < MaxCount
        /\ IF present
           THEN /\ update_count' = update_count + 1
                /\ kv_store_' = s.kv
                /\ value_to_keys_' = s.v2k
           ELSE UNCHANGED << update_count, kv_store_, value_to_keys_ >>
        /\ st_last' = StoreCall("update", key, present, present)
        /\ UNCHANGED << delete_count, netVars, bufVars, ordVars, loggerVars, memVars, rotVars >>

\* Store::remove: false for a key that is not in kv_store_, before anything
\* is touched
remove(key) ==
    LET present == key \in DOMAIN kv_store_
        s == StoreRemove(kv_store_, value_to_keys_, key)
    IN  /\ present => delete_count < MaxCount
        /\ IF present
           THEN /\ delete_count' = delete_count + 1
                /\ kv_store_' = s.kv
                /\ value_to_keys_' = s.v2k
           ELSE UNCHANGED << delete_count, kv_store_, value_to_keys_ >>
        /\ st_last' = StoreCall("remove", key, present, present)
        /\ UNCHANGED << update_count, netVars, bufVars, ordVars, loggerVars, memVars, rotVars >>

\* a line of a file as loadFromFile reads it: without '=' (skipped), or the
\* key before the first '=' and the unescaped value after it
NoEq == [key |-> "", value |-> ""]
Lines == [key : Keys, value : Values] \cup {NoEq}

\* the files loadFromFile may be given: whether ifstream opens it, its lines
Files == [opened : BOOLEAN, lines : UNION {[1..n -> Lines] : n \in 0..MaxLines}]

\* Store::loadFromFile, lines 115-136: the while loop over the lines, each
\* stored with kv_store_[key] = value and value_to_keys_[value].insert(key)
RECURSIVE loadLines(_, _, _)
loadLines(kv, v2k, lines) ==
    IF lines = << >> THEN [kv |-> kv, v2k |-> v2k]
    ELSE LET line == Head(lines)
         IN  IF line = NoEq THEN loadLines(kv, v2k, Tail(lines))
             ELSE loadLines([x \in DOMAIN kv \cup {line.key} |->
                                IF x = line.key THEN line.value ELSE kv[x]],
                            index(v2k, line.key, line.value),
                            Tail(lines))

\* Store::loadFromFile: false when the file cannot be opened; otherwise both
\* maps are cleared and filled from the lines
loadFromFile(file) ==
    LET s == loadLines(EmptyMap, EmptyMap, file.lines)
    IN  /\ IF file.opened
           THEN kv_store_' = s.kv /\ value_to_keys_' = s.v2k
           ELSE UNCHANGED << kv_store_, value_to_keys_ >>
        /\ st_last' = StoreCall("loadFromFile", "", FALSE, file.opened)
        /\ UNCHANGED << update_count, delete_count, netVars, bufVars, ordVars, loggerVars, memVars,
                        rotVars >>

(* ------------------- keyforge::Logger, CircularBuffer ------------------ *)
\* CircularBuffer(capacity): buffer_(capacity) holds that many empty strings
\* (0 here) in slots 0..capacity-1
CircularBuffer(capacity) ==
    [buffer_ |-> [i \in 0..(capacity - 1) |-> 0], head_ |-> 0, tail_ |-> 0,
     capacity_ |-> capacity, full_ |-> FALSE]

NoBufHist ==
    [n |-> 0, logged |-> << >>, dumped |-> << >>, fresh |-> FALSE, was_reset |-> FALSE,
     oob |-> FALSE, div0 |-> FALSE, alive |-> TRUE]

\* Logger(): global_buf_{1024}, threshold_{TRACE}. buf_hist observes: n, the
\* messages pushed so far; logged, the ones pushed since the last reset or
\* clear; dumped, what the latest dump() returned, and fresh, that nothing was
\* called since; was_reset, that resetBuffer was called; oob, that a slot outside
\* buffer_ was accessed; div0, that % was applied with capacity_ = 0; alive,
\* that the process has not been terminated by such an access
BufferInit ==
    /\ global_buf_ = CircularBuffer(MaxBufCap)
    /\ log_threshold_ = TRACE
    /\ buf_hist = NoBufHist

\* CircularBuffer::push, lines 213-221, when buffer_[head_] is a slot and
\* capacity_ is not zero
push(b, msg) ==
    LET head1 == (b.head_ + 1) % b.capacity_
        tail1 == IF b.full_ THEN (b.tail_ + 1) % b.capacity_ ELSE b.tail_
    IN  [b EXCEPT !.buffer_ = [@ EXCEPT ![b.head_] = msg],
                  !.head_ = head1, !.tail_ = tail1, !.full_ = (head1 = tail1)]

\* CircularBuffer::push when buffer_[head_] is outside the vector or capacity_
\* is zero (undefined behaviour): the values head_, tail_ and full_ may be left
\* with when the process goes on
pushUndefined(b) ==
    {[b EXCEPT !.head_ = h, !.tail_ = tl, !.full_ = (h = tl)] :
        h \in 0..MaxBufCap, tl \in IF b.full_ THEN 0..MaxBufCap ELSE {b.tail_}}

\* CircularBuffer::snapshot, lines 227-231: the do-while loop from idx
RECURSIVE snapshotFrom(_, _, _)
snapshotFrom(b, idx, out) ==
    LET out1 == Append(out, b.buffer_[idx])
        idx1 == (idx + 1) % b.capacity_
    IN  IF idx1 # b.head_ THEN snapshotFrom(b, idx1, out1) ELSE out1

\* CircularBuffer::snapshot for a buffer that is empty or has slots
snapshot(b) ==
    IF ~b.full_ /\ b.head_ = b.tail_ THEN << >> ELSE snapshotFrom(b, b.tail_, << >>)

\* CircularBuffer::clear: the same capacity, every slot emptied
clear(b) == CircularBuffer(b.capacity_)

\* CircularBuffer::reset
reset(b, new_capacity) == CircularBuffer(new_capacity)

\* Logger::setLevel
Logger_setLevel(level) ==
    /\ buf_hist.alive
    /\ log_threshold_' = level
    /\ buf_hist' = [buf_hist EXCEPT !.fresh = FALSE]
    /\ UNCHANGED << global_buf_, netVars, kv_store_, value_to_keys_, statVars, ordVars, loggerVars,
                    memVars, rotVars >>

\* Logger::log: a message under the threshold is dropped; any other is
\* formatted (the n-th is n here) and pushed
Logger_log(level) ==
    /\ buf_hist.alive
    /\ buf_hist.n < MaxBufLogs
    /\ IF level < log_threshold_
       THEN /\ buf_hist' = [buf_hist EXCEPT !.fresh = FALSE]
            /\ UNCHANGED global_buf_
       ELSE LET b    == global_buf_
                msg  == buf_hist.n + 1
                oob  == b.head_ \notin DOMAIN b.buffer_
                div0 == b.capacity_ = 0
                h1   == [buf_hist EXCEPT !.n = msg, !.logged = Append(@, msg),
                                         !.fresh = FALSE,
                                         !.oob = @ \/ oob, !.div0 = @ \/ div0]
            IN  IF ~oob /\ ~div0
                THEN global_buf_' = push(b, msg) /\ buf_hist' = h1
                ELSE \/ /\ buf_hist' = [h1 EXCEPT !.alive = FALSE]
                        /\ UNCHANGED global_buf_
                     \/ /\ buf_hist' = h1
                        /\ global_buf_' \in pushUndefined(b)
    /\ UNCHANGED << log_threshold_, netVars, kv_store_, value_to_keys_, statVars, ordVars,
                    loggerVars, memVars, rotVars >>

\* Logger::dump: snapshot(); on a buffer that is not empty and has no slots
\* the loop reads outside buffer_ and divides by zero
Logger_dump ==
    /\ buf_hist.alive
    /\ LET b == global_buf_
           empty == ~b.full_ /\ b.head_ = b.tail_
       IN  IF empty \/ (b.capacity_ > 0 /\ b.tail_ \in DOMAIN b.buffer_)
           THEN buf_hist' = [buf_hist EXCEPT !.dumped = snapshot(b), !.fresh = TRUE]
           ELSE \/ buf_hist' = [buf_hist EXCEPT !.oob = TRUE, !.div0 = TRUE, !.fresh = FALSE,
                                                !.alive = FALSE]
                \/ buf_hist' = [buf_hist EXCEPT !.oob = TRUE, !.div0 = TRUE, !.fresh = TRUE,
                                                !.dumped = << Garbage >>]
    /\ UNCHANGED << global_buf_, log_threshold_, netVars, kv_store_, value_to_keys_,
                    statVars, ordVars, loggerVars, memVars, rotVars >>

\* Logger::clear
Logger_clear ==
    /\ buf_hist.alive
    /\ global_buf_' = clear(global_buf_)
    /\ buf_hist' = [buf_hist EXCEPT !.logged = << >>, !.fresh = FALSE]
    /\ UNCHANGED << log_threshold_, netVars, kv_store_, value_to_keys_, statVars, ordVars,
                    loggerVars, memVars, rotVars >>

\* Logger::resetBuffer
Logger_resetBuffer(capacity) ==
    /\ buf_hist.alive
    /\ global_buf_' = reset(global_buf_, capacity)
    /\ buf_hist' = [buf_hist EXCEPT !.logged = << >>, !.fresh = FALSE, !.was_reset = TRUE]
    /\ UNCHANGED << log_threshold_, netVars, kv_store_, value_to_keys_, statVars, ordVars,
                    loggerVars, memVars, rotVars >>

(* ------------------ the mutexes of the logging pipeline ---------------- *)
\* the threads: two that call into the pipeline and the worker
Threads == {"p1", "p2", "worker"}

\* AsyncLogger::q_mtx_, subs_mtx_, sinks_mtx_; InMemorySink::sessions_mtx_;
\* Ring::mtx_ of global_ and of a session's ring; ConsoleSink::mtx_
PipelineLocks == {"q_mtx_", "subs_mtx_", "sinks_mtx_", "sessions_mtx_", "global_.mtx_",
                  "ring.mtx_"}
Mutexes == PipelineLocks \cup {"console.mtx_"}

\* std::lock_guard / std::unique_lock on l; std::shared_lock on l; the end of
\* the guard's scope; a call made by the pipeline; the return of a function
Acq(l) == [k |-> "acq", l |-> l, m |-> "unique"]
AcqShared(l) == [k |-> "acq", l |-> l, m |-> "shared"]
Rel(l) == [k |-> "rel", l |-> l, m |-> ""]
Call(f) == [k |-> "call", l |-> f, m |-> ""]
Ret == [k |-> "ret", l |-> "", m |-> ""]

\* AsyncLogger::subscribe and unsubscribe
lk_subscribe == << Acq("subs_mtx_"), Rel("subs_mtx_"), Ret >>
lk_unsubscribe == << Acq("subs_mtx_"), Rel("subs_mtx_"), Ret >>

\* AsyncLogger::addSink and removeSink
lk_addSink == << Acq("sinks_mtx_"), Rel("sinks_mtx_"), Ret >>
lk_removeSink == << Acq("sinks_mtx_"), Rel("sinks_mtx_"), Ret >>

\* Ring::push, lastN and clear
lk_ring(l) == << Acq(l), Rel(l) >>

\* InMemorySink::recentForSession: sessions_mtx_ shared, and lastN of the
\* session's ring when the session is found
lk_sink_recentForSession(found) ==
    << AcqShared("sessions_mtx_") >> \o (IF found THEN lk_ring("ring.mtx_") ELSE << >>)
        \o << Rel("sessions_mtx_") >>

\* AsyncLogger::recentGlobal, recentForSession, exportSession, clearSession:
\* sinks_mtx_ is held across the call into the InMemorySink
lk_recentGlobal ==
    << Acq("sinks_mtx_") >> \o lk_ring("global_.mtx_") \o << Rel("sinks_mtx_"), Ret >>
lk_recentForSession(found) ==
    << Acq("sinks_mtx_") >> \o lk_sink_recentForSession(found) \o << Rel("sinks_mtx_"), Ret >>
lk_exportSession(found) ==
    << Acq("sinks_mtx_") >> \o lk_sink_recentForSession(found) \o << Rel("sinks_mtx_"), Ret >>
lk_clearSession ==
    << Acq("sinks_mtx_"), Acq("sessions_mtx_"), Rel("sessions_mtx_"), Rel("sinks_mtx_"), Ret >>

\* InMemorySink::clearAll, called on the sink itself
lk_clearAll ==
    lk_ring("global_.mtx_") \o << Acq("sessions_mtx_"), Rel("sessions_mtx_"), Ret >>

\* AsyncLogger::flush: sinks_ copied under sinks_mtx_; ConsoleSink::flush and
\* InMemorySink::flush take no lock
lk_flush == << Acq("sinks_mtx_"), Rel("sinks_mtx_"), Ret >>

\* ConsoleSink::consume
lk_console_consume == lk_ring("console.mtx_") \o << Ret >>

\* InMemorySink::consume: global_.push, then for a record with a session id
\* sessions_mtx_ held across the push into the session's ring
lk_memory_consume(has_session) ==
    lk_ring("global_.mtx_")
        \o (IF has_session
            THEN << Acq("sessions_mtx_") >> \o lk_ring("ring.mtx_") \o << Rel("sessions_mtx_") >>
            ELSE << >>)
        \o << Ret >>

\* AsyncLogger::log with the subscribers called while subs_mtx_ is held
fanoutUnderLock ==
    << Acq("q_mtx_"), Rel("q_mtx_"), Acq("subs_mtx_"), Call("callback"), Rel("subs_mtx_"),
       Ret >>

\* AsyncLogger::log, lines 348-367: the push under q_mtx_, the copy of the
\* subscribers under subs_mtx_, then the callbacks
lk_log ==
    << Acq("q_mtx_"), Rel("q_mtx_"), Acq("subs_mtx_"), Rel("subs_mtx_"), Call("callback"),
       Ret >>

\* AsyncLogger::workerThreadMain, one pass of the loop: wait_for under q_mtx_
\* (which it releases while blocked and takes again), then either continue or
\* pop, copy sinks_ under sinks_mtx_ and call consume() of each sink
lk_workerThreadMain(blocks, popped) ==
    << Acq("q_mtx_") >> \o (IF blocks THEN << Rel("q_mtx_"), Acq("q_mtx_") >> ELSE << >>)
        \o << Rel("q_mtx_") >>
        \o (IF popped
            THEN << Acq("sinks_mtx_"), Rel("sinks_mtx_"), Call("ConsoleSink::consume"),
                    Call("InMemorySink::consume") >>
            ELSE << >>)
        \o << Ret >>

\* what a subscriber callback may do: nothing, or call back into the pipeline
CallbackBodies ==
    {<< Ret >>, lk_subscribe, lk_unsubscribe, lk_addSink, lk_removeSink, lk_recentGlobal,
     lk_clearSession}
        \cup {lk_recentForSession(f) : f \in BOOLEAN}
        \cup {lk_exportSession(f) : f \in BOOLEAN}

\* the bodies a call step may run
Bodies(f) ==
    CASE f = "callback" -> CallbackBodies
      [] f = "ConsoleSink::consume" -> {lk_console_consume}
      [] f = "InMemorySink::consume" -> {lk_memory_consume(s) : s \in BOOLEAN}

\* what a thread may run from the top: the worker its loop and the final
\* flush(), any other thread log() or another call of the interface
Entry(t) ==
    IF t = "worker"
    THEN {lk_workerThreadMain(b, p) : b \in BOOLEAN, p \in BOOLEAN} \cup {lk_flush}
    ELSE {lk_log, lk_clearAll, lk_flush} \cup CallbackBodies

\* no thread has taken a lock or entered a function
OrdInit ==
    /\ held = [t \in Threads |-> << >>]
    /\ todo = [t \in Threads |-> << >>]
    /\ stack = [t \in Threads |-> << >>]

otherVars == << loggerVars, memVars, rotVars, netVars, kv_store_, value_to_keys_, statVars,
                bufVars >>

\* the threads, other than t, that hold l in a way that keeps t from taking it
\* in mode m
blockers(t, l, m) ==
    {u \in Threads \ {t} :
        \E i \in 1..Len(held[u]) :
            held[u][i].l = l /\ (m = "unique" \/ held[u][i].m = "unique")}

HoldsLock(t, l) == \E i \in 1..Len(held[t]) : held[t][i].l = l

\* thread t enters one of the functions it may call from the top
OrdBegin(t) ==
    /\ todo[t] = << >>
    /\ \E body \in Entry(t) :
        /\ todo' = [todo EXCEPT ![t] = body]
        /\ stack' = [stack EXCEPT ![t] = << "entry" >>]
    /\ UNCHANGED << held, otherVars >>

\* lock(): the thread takes the mutex once nobody holds it against it; a
\* std::mutex its own thread holds is never handed to it again
OrdAcquire(t) ==
    /\ todo[t] # << >>
    /\ Head(todo[t]).k = "acq"
    /\ LET s == Head(todo[t])
       IN  /\ blockers(t, s.l, s.m) = {}
           /\ ~HoldsLock(t, s.l)
           /\ held' = [held EXCEPT ![t] = Append(@, [l |-> s.l, m |-> s.m])]
    /\ todo' = [todo EXCEPT ![t] = Tail(@)]
    /\ UNCHANGED << stack, otherVars >>

\* unlock() at the end of the guard's scope
OrdRelease(t) ==
    /\ todo[t] # << >>
    /\ Head(todo[t]).k = "rel"
    /\ held' = [held EXCEPT ![t] = SelectSeq(@, LAMBDA e : e.l # Head(todo[t]).l)]
    /\ todo' = [todo EXCEPT ![t] = Tail(@)]
    /\ UNCHANGED << stack, otherVars >>

\* the pipeline calls a subscriber or a sink's consume(): its body runs on
\* the calling thread with whatever that thread holds
OrdCall(t) ==
    /\ todo[t] # << >>
    /\ Head(todo[t]).k = "call"
    /\ \E body \in Bodies(Head(todo[t]).l) :
        todo' = [todo EXCEPT ![t] = body \o Tail(@)]
    /\ stack' = [stack EXCEPT ![t] = Append(@, Head(todo[t]).l)]
    /\ UNCHANGED << held, otherVars >>

\* a function returns to its caller
OrdReturn(t) ==
    /\ todo[t] # << >>
    /\ Head(todo[t]).k = "ret"
    /\ todo' = [todo EXCEPT ![t] = Tail(@)]
    /\ stack' = [stack EXCEPT ![t] = SubSeq(@, 1, Len(@) - 1)]
    /\ UNCHANGED << held, otherVars >>

(* --------------------------- specifications ---------------------------- *)
\* the sinks of the pipeline are the ones Logger::Logger() makes
Init ==
    LoggerInit /\ MemInit(MaxCap, MaxCap) /\ RotIdle /\ ServerInit /\ BufferInit /\ OrdInit

\* the pipeline in operation: two producers call log(), the worker dispatches
Next ==
    \/ \E p \in Producers : LogFilter(p)
    \/ \E p \in Producers : LogEnqueue(p)
    \/ \E p \in Producers : LogSnapshot(p)
    \/ \E p \in Producers : LogReturn(p)
    \/ WorkerLoop
    \/ WorkerWait
    \/ WorkerSnapshot
    \/ WorkerDeliver

Spec == Init /\ [][Next]_vars

\* the same, with the worker thread scheduled: wait_for returns after at most
\* 200 ms and every consume() returns or throws
LiveSpec == Init /\ [][Next]_vars /\ WF_vars(Dispatch)

\* producers racing with one shutdown(flush_flag) call
ShutdownNext ==
    \/ Next
    \/ WorkerFlush
    \/ ShutdownBegin
    \/ ShutdownJoin

ShutdownSpec == Init /\ [][ShutdownNext]_vars

\* one producer, with setLevel() and subscribe() calls from other threads
LevelNext ==
    \/ Log("p1")
    \/ Dispatch
    \/ subscribe
    \/ \E lvl \in SetLevels : setLevel(lvl)

LevelSpec == Init /\ [][LevelNext]_vars

\* two producers, with subscribe() calls from another thread
SubNext ==
    \/ \E p \in Producers : Log(p)
    \/ Dispatch
    \/ subscribe

SubSpec == Init /\ [][SubNext]_vars

\* one producer issuing MaxSinkLogs log() calls and the worker, with addSink()
\* and removeSink() calls from other threads
SinkNext ==
    \/ n_calls < MaxSinkLogs /\ LogFilter("p1")
    \/ LogEnqueue("p1")
    \/ LogSnapshot("p1")
    \/ LogReturn("p1")
    \/ WorkerLoop
    \/ WorkerWait
    \/ WorkerSnapshot
    \/ WorkerDeliver
    \/ \E sink \in SinkIds : addSink(sink)
    \/ \E sink \in SinkIds : removeSink(sink)

SinkSpec == Init /\ [][SinkNext]_vars

\* one producer, the worker with its wait on q_cv_ in steps of its own, and one
\* shutdown(flush_flag) call
WaitNext ==
    \/ LogFilter("p1")
    \/ LogLock("p1")
    \/ LogPush("p1")
    \/ LogSnapshot("p1")
    \/ LogReturn("p1")
    \/ WorkerLoop
    \/ WorkerPred
    \/ WorkerBlock
    \/ WorkerWake
    \/ WorkerSnapshot
    \/ WorkerDeliver
    \/ WorkerFlush
    \/ ShutdownBegin
    \/ ShutdownJoin

WaitSpec == Init /\ [][WaitNext]_vars

\* the same with the worker and the thread inside shutdown() scheduled, every
\* consume() returning or throwing, and the holder of q_mtx_ reaching the end
\* of its block; the producer issues finitely many calls
WaitLiveSpec ==
    Init /\ [][WaitNext]_vars
         /\ WF_vars(WorkerLoop) /\ WF_vars(WorkerPred) /\ WF_vars(WorkerBlock)
         /\ WF_vars(WorkerWake) /\ WF_vars(WorkerSnapshot) /\ WF_vars(WorkerDeliver)
         /\ WF_vars(WorkerFlush) /\ WF_vars(LogPush("p1")) /\ WF_vars(ShutdownJoin)

\* two producers issuing MaxHandleLogs log() calls, with subscribe() and
\* unsubscribe() calls from other threads, unknown ids included
HandleNext ==
    \/ \E p \in Producers : n_calls < MaxHandleLogs /\ LogFilter(p)
    \/ \E p \in Producers : LogEnqueue(p)
    \/ \E p \in Producers : LogSnapshot(p)
    \/ \E p \in Producers : LogCallback(p)
    \/ \E p \in Producers : LogReturn(p)
    \/ subscribeUpTo(MaxHandles)
    \/ \E id \in 1..(MaxHandles + 1) : unsubscribe(id)

HandleSpec == Init /\ [][HandleNext]_vars

\* one producer whose callbacks return or throw, the worker, and subscribe()
\* calls from another thread
FanoutNext ==
    \/ LogFilter("p1")
    \/ LogEnqueue("p1")
    \/ LogSnapshot("p1")
    \/ LogCallback("p1")
    \/ LogCallbackThrows("p1")
    \/ LogReturn("p1")
    \/ WorkerLoop
    \/ WorkerWait
    \/ WorkerSnapshot
    \/ WorkerDeliver
    \/ subscribeUpTo(MaxFanout)

FanoutSpec == Init /\ [][FanoutNext]_vars

\* an InMemorySink of any capacities, driven directly
MemSpecInit ==
    /\ LoggerInit
    /\ \E g \in 0..MaxCap, c \in 0..MaxCap : MemInit(g, c)
    /\ RotIdle
    /\ ServerInit
    /\ BufferInit
    /\ OrdInit

MemNext ==
    \/ MemConsume
    \/ \E sid \in Sessions : MemClearSession(sid)
    \/ MemClearAll

MemSpec == MemSpecInit /\ [][MemNext]_vars

\* an InMemorySink of any capacities that only consumes (no clear is called)
ConsumeSpec == MemSpecInit /\ [][MemConsume]_vars

\* a RotatingFileSink of any configuration, driven directly
RotSpecInit ==
    LoggerInit /\ MemInit(MaxCap, MaxCap) /\ RotInit /\ ServerInit /\ BufferInit /\ OrdInit

RotNext == \E len \in 1..(MaxBytes + 1) : RotConsume(len)

RotSpec == RotSpecInit /\ [][RotNext]_vars

\* the Store driven directly: put, update, remove and loadFromFile in any order
StoreNext ==
    \/ \E key \in Keys, value \in Values : put(key, value)
    \/ \E key \in Keys, value \in Values : update(key, value)
    \/ \E key \in Keys : remove(key)
    \/ \E file \in Files : loadFromFile(file)

StoreSpec == Init /\ [][StoreNext]_vars

\* the singleton keyforge::Logger: log, dump, clear, resetBuffer, setLevel
BufferNext ==
    \/ \E level \in LogLevels : Logger_log(level)
    \/ Logger_dump
    \/ Logger_clear
    \/ \E capacity \in 0..MaxBufCap : Logger_resetBuffer(capacity)
    \/ \E level \in SetLevels : Logger_setLevel(level)

BufferSpec == Init /\ [][BufferNext]_vars

\* the threads of the pipeline taking and releasing its mutexes
OrdNext ==
    \E t \in Threads :
        \/ OrdBegin(t)
        \/ OrdAcquire(t)
        \/ OrdRelease(t)
        \/ OrdCall(t)
        \/ OrdReturn(t)

OrdSpec == Init /\ [][OrdNext]_vars

\* the key-value server: run() accepting clients, one handleClient thread each
ServerNext ==
    \/ RunListen
    \/ \E c \in Clients : RunAccept(c)
    \/ RunStopAccepting
    \/ RunJoin
    \/ \E c \in Clients : HandleCommand(c)
    \/ \E c \in Clients : ClientCloses(c)

ServerSpec == Init /\ [][ServerNext]_vars

\* the same with the thread inside run() scheduled; what clients send, and
\* whether they ever close, is up to them
ServerLiveSpec ==
    Init /\ [][ServerNext]_vars
         /\ WF_vars(RunListen) /\ WF_vars(RunStopAccepting) /\ WF_vars(RunJoin)

\* one producer and the worker with the acquisition of q_mtx_ as a step of
\* its own, and subscribe() calls from another thread
LockNext ==
    \/ LogFilter("p1")
    \/ LogLock("p1")
    \/ LogPush("p1")
    \/ LogSnapshot("p1")
    \/ LogCallback("p1")
    \/ LogReturn("p1")
    \/ WorkerLoop
    \/ WorkerLock
    \/ WorkerPop
    \/ WorkerSnapshot
    \/ WorkerDeliver
    \/ subscribe

LockSpec == Init /\ [][LockNext]_vars

\* the same with the producer scheduled and every holder of q_mtx_ reaching
\* the end of its block; a consume() call may never return
LockLiveSpec ==
    Init /\ [][LockNext]_vars
         /\ WF_vars(LogLock("p1")) /\ WF_vars(LogPush("p1")) /\ WF_vars(LogSnapshot("p1"))
         /\ WF_vars(LogCallback("p1")) /\ WF_vars(LogReturn("p1"))
         /\ WF_vars(WorkerPop)

\* two threads calling start() and shutdown() in any order, one producer and
\* the worker; the process ends at the first misuse of the thread handle
LifeNext ==
    \/ \E t \in Callers : StartCas(t)
    \/ \E t \in Callers : StartSpawn(t)
    \/ \E t \in Callers : ShutCas(t)
    \/ \E t \in Callers : ShutCheck(t)
    \/ \E t \in Callers : ShutJoin(t)
    \/ Alive /\ LogFilter("p1")
    \/ Alive /\ LogEnqueue("p1")
    \/ Alive /\ LogSnapshot("p1")
    \/ Alive /\ LogReturn("p1")
    \/ Alive /\ WorkerLoop
    \/ Alive /\ WorkerWait
    \/ Alive /\ WorkerSnapshot
    \/ Alive /\ WorkerDeliver
    \/ Alive /\ WorkerFlush

LifeSpec == Init /\ [][LifeNext]_vars

(* ------------------------------ claims --------------------------------- *)
\* C1: with the worker running and the sinks fixed, as long as the queue never
\* reaches max_queue_size_, what each sink has consumed is a prefix of the
\* accepted sequence (submission order, nothing missing or duplicated), and
\* every accepted record is eventually consumed by every sink.
C1_FullDelivery ==
    /\ [](~q_hit_max => \A s \in Range(sinks_) : IsPrefix(consumed[s], accepted))
    /\ \A k \in 1..MaxLogs :
          (Len(accepted) >= k) ~>
              (q_hit_max \/ \A s \in Range(sinks_) : Len(consumed[s]) >= k)

C1_Witness ==
    /\ ~q_hit_max
    /\ Len(accepted) = MaxLogs
    /\ \A s \in Range(sinks_) : consumed[s] = accepted

\* C2: overflow drops oldest-first. With capacity K and no dequeue in between,
\* K+1 accepted calls leave exactly the K most recent records queued, in order,
\* and the earliest one evicted; an evicted record is never consumed by a sink;
\* the records that are not evicted leave the queue in acceptance order and the
\* sinks consume them in that order.
C2_DropOldest ==
    /\ (dequeued = << >> /\ Len(accepted) = max_queue_size_ + 1) =>
          /\ queue_ = SubSeq(accepted, 2, max_queue_size_ + 1)
          /\ evicted = << accepted[1] >>
    /\ \A s \in SinkIds : Range(consumed[s]) \cap Range(evicted) = {}
    /\ SelectSeq(accepted, LAMBDA r : r \notin Range(evicted)) = dequeued \o queue_
    /\ \A s \in Range(sinks_) : IsPrefix(consumed[s], dequeued)

C2_Witness ==
    /\ Len(accepted) = max_queue_size_ + 1
    /\ evicted = << accepted[1] >>
    /\ \A s \in Range(sinks_) : consumed[s] = SubSeq(accepted, 2, max_queue_size_ + 1)

\* C3: the intake queue never holds more than max_queue_size_ records.
C3_QueueBounded == Len(queue_) <= max_queue_size_

C3_Witness == Len(queue_) = max_queue_size_ /\ evicted # << >>

\* C4: a log() call whose level is below the level given to the latest
\* setLevel() returns at the threshold test and its record shows up nowhere
\* (queue, sinks, subscriber callbacks); a call at or above it is enqueued.
C4_BelowThresholdDropped ==
    /\ last_call # NoLog =>
          ((last_call.id \in dropped) <=> (last_call.level < last_call.thr))
    /\ \A i \in dropped :
          /\ i \notin Range(accepted) \cup Range(queue_)
          /\ \A s \in SinkIds : i \notin Range(consumed[s])
          /\ cb_last.own # i /\ cb_last.got # i
          /\ \A p \in Producers : p_pc[p] # "idle" => p_rec[p] # i
    /\ \A i \in (1..n_calls) \ dropped :
          \/ i \in Range(accepted)
          \/ \E p \in Producers : p_pc[p] = "enqueue" /\ p_rec[p] = i

C4_Witness ==
    /\ n_setlevel = 1 /\ last_set = WARN
    /\ dropped # {}
    /\ last_call.level = WARN /\ last_call.thr = WARN
    /\ \A s \in SinkIds : last_call.id \in Range(consumed[s])
    /\ cb_last.own = last_call.id

\* C5: when shutdown(true) returns the queue is empty: every record accepted
\* before that moment and not evicted has been consumed by the sinks.
C5_ShutdownDrains == (m_pc = "returned_flushed") => (sd_left = << >>)

\* C6: every subscriber callback is handed the record its own log() call submitted.
C6_CallbackGetsOwnRecord == (cb_last # NoCall) => (cb_last.got = cb_last.own)

\* C10: a consume() that throws changes nothing else: the worker stays in its
\* loop, and every sink has consumed every dequeued record, up to the record in
\* dispatch, which the sinks before position w_i of the snapshot have consumed.
C10_FaultIsolated ==
    /\ w_pc \in {"loop", "wait", "snapshot", "deliver"}
    /\ w_pc = "deliver" => w_copy = sinks_
    /\ \A k \in 1..Len(sinks_) :
          consumed[sinks_[k]] =
              IF w_pc = "snapshot" \/ (w_pc = "deliver" /\ k >= w_i)
              THEN Front(dequeued) ELSE dequeued

C10_Witness ==
    /\ fault_at.sink = "console"
    /\ fault_at.rec \in Range(consumed["memory"])
    /\ \E r \in Range(consumed["console"]) : r \notin {fault_at.rec} /\
          Len(consumed["console"]) >= 2 /\ consumed["console"][1] = fault_at.rec

\* the values of n the queries are called with
QueryNs == 0..(MaxConsume + 1)

\* C7: a ring of capacity C >= 1 that has seen the pushes h (and no clear())
\* holds min(|h|, C) records, and lastN(n) is the last min(n, |h|, C) of h in
\* push order, for the global ring and for every session ring.
C7_RingLastN ==
    /\ (global_.capacity >= 1 /\ ~g_cleared) =>
          /\ global_.size = Min(Len(g_hist), global_.capacity)
          /\ \A n \in QueryNs :
                recentGlobal(n) = LastOf(g_hist, Min(n, Min(Len(g_hist), global_.capacity)))
    /\ \A s \in DOMAIN sessions_ :
          sessions_[s].capacity >= 1 =>
              /\ sessions_[s].size = Min(Len(s_hist[s]), sessions_[s].capacity)
              /\ \A n \in QueryNs :
                    recentForSession(s, n) =
                        LastOf(s_hist[s], Min(n, Min(Len(s_hist[s]), sessions_[s].capacity)))

\* capacity 3 and four pushes: lastN(3) and the clamped lastN(5) are the last three
C7_Witness ==
    /\ global_.capacity = 3 /\ ~g_cleared /\ Len(g_hist) = 4
    /\ recentGlobal(3) = SubSeq(g_hist, 2, 4)
    /\ recentGlobal(MaxConsume + 1) = SubSeq(g_hist, 2, 4)

\* C9: recentForSession(s, n) holds only records whose session id is s.
C9_SessionIsolation ==
    \A s \in Sessions, n \in QueryNs :
        \A i \in 1..Len(recentForSession(s, n)) : recentForSession(s, n)[i].session = s

\* session A was cleared and used again, next to records of B and of no session
C9_Witness ==
    /\ Len(recentForSession("A", 2)) = 1
    /\ Len(s_hist["B"]) >= 1
    /\ \E i \in 1..Len(g_hist) : g_hist[i].session = NoSession
    /\ \E i \in 1..Len(g_hist) : g_hist[i].session = "A" /\ g_hist[i] \notin Range(s_hist["A"])

\* the latest consume() found the sink in file mode and left it there
InFileMode == rot_last # NoWrite /\ rot_last.pre_fp = "file" /\ fp_ = "file"

\* the latest consume() found a tracked size that its record would take past max_bytes
Overflowing == rot_last.pre_size + rot_last.rec.len > max_bytes_

C14_RetentionBound ==
    max_files_ >= 1 => \A i \in FileIdx : fs[i].exists => i < max_files_

\* total size of a file: the sum of the lengths of the records written to it
RECURSIVE Bytes(_)
Bytes(data) == IF data = << >> THEN 0 ELSE data[1].len + Bytes(Tail(data))

\* C15 as stated: in file mode, after every consume() the tracked size is at
\* most max_bytes, whatever the formatted length of the record.
C15_AsStated == InFileMode => current_size_ <= max_bytes_

\* C15, amended: in file mode, after a consume() of a record whose formatted
\* length is at most max_bytes, the tracked size is at most max_bytes, and it
\* is the size of base.0.log, whatever size base.0.log had at construction.
C15_TrackedSizeBounded ==
    (InFileMode /\ rot_last.rec.len <= max_bytes_) =>
        /\ current_size_ <= max_bytes_
        /\ Bytes(fs[0].data) = current_size_

\* a file found above max_bytes at construction was rotated away by the first
\* consume(), and a later record filled the new file to max_bytes exactly
C15_Witness ==
    /\ InFileMode /\ rot_last.rec.len <= max_bytes_
    /\ \E i \in FileIdx : fs[i].exists /\ fs[i].data # << >> /\ fs[i].data[1].id = 0
                          /\ fs[i].data[1].len > max_bytes_
    /\ current_size_ = max_bytes_
    /\ Len(fs[0].data) >= 2

\* C18: after clearAll() ran Ring::clear() on the global ring (capacity C >= 1),
\* the ring behaves as a new ring of capacity C: with the pushes h made since,
\* lastN(n) is the last min(n, |h|, C) of h ([] right after the clear).
C18_ClearedRingLikeNew ==
    (g_cleared /\ global_.capacity >= 1) =>
        \A n \in QueryNs :
            recentGlobal(n) = LastOf(g_hist, Min(n, Min(Len(g_hist), global_.capacity)))

\* s is t with some elements left out
RECURSIVE IsSubseq(_, _)
IsSubseq(s, t) ==
    IF s = << >> THEN TRUE
    ELSE IF t = << >> THEN FALSE
    ELSE IF Head(s) = Head(t) THEN IsSubseq(Tail(s), Tail(t))
    ELSE IsSubseq(s, Tail(t))

\* C19: with several producers, evictions and dequeues interleaved, what each
\* sink has consumed is a subsequence of the records in the order their
\* enqueue completed, and holds no record twice.
C19_AcceptanceOrder ==
    \A s \in SinkIds :
        /\ IsSubseq(consumed[s], accepted)
        /\ \A i, j \in 1..Len(consumed[s]) : consumed[s][i] = consumed[s][j] => i = j

\* a record was evicted, and every sink consumed the records after it in order
C19_Witness ==
    /\ evicted # << >>
    /\ \A s \in SinkIds :
          /\ Len(consumed[s]) >= 2
          /\ ~IsPrefix(consumed[s], accepted)
          /\ Last(consumed[s]) = Last(accepted)

\* C13: no record stays in the queue once the worker has exited: every
\* accepted record was evicted or handed to the sinks.
C13_NothingStranded ==
    (w_pc = "done") =>
        /\ queue_ = << >>
        /\ \A r \in Range(accepted) :
              r \in Range(evicted) \/ \A s \in Range(sinks_) : r \in Range(consumed[s])

\* C16: once a client has sent SHUTDOWN, Server::run() eventually returns,
\* whatever the other clients do.
C16_ShutdownReturns == shutdown_requested_ ~> (run_pc = "returned")

\* C17: GET_KEY <value> is answered with a key currently mapped to that value
\* when there is one, and with NOT_FOUND otherwise.
C17_GetKeyServed ==
    srv_last.cmd = "GET_KEY" =>
        LET mapped == { k \in DOMAIN kv_store_ : kv_store_[k] = srv_last.arg }
        IN  IF mapped # {}
            THEN srv_last.resp.tag = "OK" /\ srv_last.resp.arg \in mapped
            ELSE srv_last.resp = Resp("NOT_FOUND", "")

\* C20: no thread touches the intake queue without holding q_mtx_ while
\* another thread is inside its push or pop block.
C20_QueueAccessLocked == ~q_race

\* C12: while the worker is delivering a record (between its pop and the end
\* of the last consume()) it does not hold q_mtx_, and a log() call that has
\* passed the threshold test returns even if that consume() never does.
C12_ProducerNotBlocked ==
    /\ [](w_pc \in {"snapshot", "deliver"} => q_mtx_ # "worker")
    /\ \A p \in Producers :
          (p_pc[p] = "enqueue" /\ w_pc = "deliver") ~> (p_pc[p] = "idle" \/ w_pc # "deliver")

\* the worker is inside consume() of its first record for its first sink, and
\* meanwhile every other log() call was enqueued, broadcast and has returned
C12_Witness ==
    /\ w_pc = "deliver" /\ w_i = 1
    /\ \A s \in SinkIds : consumed[s] = << >>
    /\ Len(accepted) = MaxLogs
    /\ cb_last.own = Last(accepted)
    /\ \A p \in Producers : p_pc[p] = "idle"

\* C11: under any interleaving of start() and shutdown() calls the worker
\* thread handle is never assigned while it holds a joinable thread (a second
\* worker next to the first) and never joined by two callers at once.
C11_OneWorkerHandle == l_fault = "none"

\* the records of g_hist that carry session id s, in consumption order
carried(s) == SelectSeq(g_hist, LAMBDA r : r.session = s)

\* C28: after an InMemorySink of global capacity G and per-session capacity S
\* has consumed a sequence of records and nothing was cleared, recentGlobal(n)
\* is the last min(n, G, total) records consumed, recentForSession(s, n) is the
\* last min(n, S, count_s) records that carried s, and sessions_ has a ring
\* exactly for the session ids seen.
C28_ConsumeThenQuery ==
    /\ \A n \in QueryNs :
          recentGlobal(n) = LastOf(g_hist, Min(n, Min(global_.capacity, Len(g_hist))))
    /\ \A s \in Sessions, n \in QueryNs :
          recentForSession(s, n) =
              LastOf(carried(s), Min(n, Min(per_session_capacity_, Len(carried(s)))))
    /\ DOMAIN sessions_ = { r.session : r \in Range(g_hist) } \ {NoSession}

\* G = 2, S = 1, four records: two of A, one of B, one without a session id;
\* the global query is cut to two records, the query for A to the newer one
C28_Witness ==
    /\ global_.capacity = 2 /\ per_session_capacity_ = 1 /\ Len(g_hist) = 4
    /\ Len(carried("A")) = 2 /\ Len(carried("B")) = 1
    /\ recentGlobal(3) = SubSeq(g_hist, 3, 4)
    /\ recentForSession("A", 3) = << Last(carried("A")) >>
    /\ DOMAIN sessions_ = {"A", "B"}

\* C29: whenever sessions_mtx_ can be taken (between two calls of consume(),
\* clearSession() and clearAll()), every entry of sessions_ holds at least one
\* record, whatever per_session_capacity_ the sink was constructed with.
C29_NoEmptySessionEntry == \A s \in DOMAIN sessions_ : sessions_[s].size >= 1

\* C30: clearSession(s) leaves recentForSession(s, n) and exportSession(s)
\* empty and the global ring and the rings of all other sessions as they were;
\* for a session without a ring it changes nothing; and what a session's ring
\* returns afterwards are only records consumed after the clear.
C30_ClearSessionFrame ==
    /\ [][\A s \in Sessions : MemClearSession(s) =>
            /\ \A n \in QueryNs : recentForSession(s, n)' = << >>
            /\ exportSession(s)' = << >>
            /\ global_' = global_
            /\ \A n \in QueryNs : recentGlobal(n)' = recentGlobal(n)
            /\ \A o \in DOMAIN sessions_ \ {s} :
                  o \in DOMAIN sessions_' /\ sessions_'[o] = sessions_[o]
            /\ s \notin DOMAIN sessions_ =>
                  << global_, per_session_capacity_, sessions_ >>' =
                  << global_, per_session_capacity_, sessions_ >>]_vars
    /\ [](\A s \in Sessions, n \in QueryNs :
            Range(recentForSession(s, n)) \subseteq Range(s_hist[s]))

\* session A held a record, was cleared and used again while B kept its own:
\* the query for A returns the one record consumed after the clear
C30_Witness ==
    /\ Len(carried("A")) = 2 /\ Len(s_hist["A"]) = 1
    /\ recentForSession("A", 2) = << Last(carried("A")) >>
    /\ exportSession("A") = << formatLine(Last(carried("A"))) >>
    /\ carried("B") # << >> /\ recentForSession("B", 1) = << Last(carried("B")) >>
    /\ ~g_cleared /\ global_.capacity = 3 /\ recentGlobal(3) = LastOf(g_hist, 3)

\* the consume() calls made for snapshot d once its first k sinks were served
served(d, k) == [j \in 1..k |-> [sink |-> d.copy[j], rec |-> d.rec]]

\* the consume() calls the snapshots 1..i account for: all sinks of a finished
\* dispatch, the sinks before w_i of the one in progress
RECURSIVE deliveries(_)
deliveries(i) ==
    IF i = 0 THEN << >>
    ELSE deliveries(i - 1) \o
         served(snaps[i], IF i = Len(snaps) /\ w_pc = "deliver"
                          THEN w_i - 1 ELSE Len(snaps[i].copy))

\* the records among calls that went to sink s, in order
recordsFor(calls, s) ==
    LET sel == SelectSeq(calls, LAMBDA c : c.sink = s)
    IN  [j \in 1..Len(sel) |-> sel[j].rec]

\* C21: the snapshot taken for a record is the sink list as registered at
\* that moment (a sink whose removeSink() returned before is not in it, a sink
\* whose addSink() returned before is), and the record is passed to exactly
\* the entries of that snapshot, whatever is added or removed meanwhile.
C21_SnapshotDelivery ==
    /\ \A i \in 1..Len(snaps) : snaps[i].copy = snaps[i].registered
    /\ \A s \in SinkIds : consumed[s] = recordsFor(deliveries(Len(snaps)), s)

\* a first record went to console and memory; console was then removed and
\* the snapshot of the second record is without it, while memory is removed
\* during the second dispatch and is still to be served from the copy
C21_Witness ==
    /\ Len(snaps) = 2
    /\ snaps[1].copy = << "console", "memory" >>
    /\ snaps[2].copy = << "memory", "memory" >>
    /\ w_pc = "deliver" /\ w_i = 2 /\ sinks_ = << >>
    /\ consumed["console"] = << snaps[1].rec >>
    /\ consumed["memory"] = << snaps[1].rec, snaps[2].rec >>

\* C22: removeSink(s) erases every entry of sinks_ that is s and keeps the
\* other entries in their order; when s is not registered the list stays as
\* it is; queue, subscribers and threshold are not touched.
C22_RemoveSinkFrame ==
    [][\A s \in SinkIds : removeSink(s) =>
          /\ s \notin Range(sinks_')
          /\ sinks_' = SelectSeq(sinks_, LAMBDA x : x # s)
          /\ (s \notin Range(sinks_) => sinks_' = sinks_)
          /\ UNCHANGED << queue_, subscribers_, next_sub_id_, threshold_ >>]_vars

\* console was registered twice around memory when a snapshot was taken, and
\* only memory is registered now
C22_Witness ==
    /\ \E i \in 1..Len(snaps) : snaps[i].registered = << "console", "memory", "console" >>
    /\ sinks_ = << "memory" >>

\* C23: the worker leaves its loop only on a step that finds running_ false
\* and the queue empty; its flush() on exit goes to every registered sink; and
\* once it is there it makes no further consume() call.
C23_ExitFlushes ==
    /\ [][(w_pc = "loop" /\ w_pc' = "flush") => (~running_ /\ queue_ = << >>)]_vars
    /\ [][(w_pc \in {"flush", "done"}) =>
             (w_pc' \in {"flush", "done"} /\ consumed' = consumed)]_vars
    /\ [](w_pc = "done" => flushed = sinks_)

\* the worker has served two records to both sinks, left the loop after
\* shutdown() and flushed console and memory
C23_Witness ==
    /\ w_pc = "done" /\ ~running_ /\ queue_ = << >>
    /\ flushed = << "console", "memory" >>
    /\ Len(dequeued) = 2
    /\ \A s \in SinkIds : consumed[s] = dequeued

\* C24: once shutdown() has cleared running_, the worker passes every record
\* still queued to the sinks, leaves its loop and returns, and shutdown()
\* returns, whether or not its notify_all() reached the worker.
C24_ShutdownObserved ==
    /\ (m_pc = "joining") ~> (w_pc = "done")
    /\ (m_pc = "joining") ~> (m_pc \in {"returned", "returned_flushed"})
    /\ \A id \in 1..MaxLogs :
          (m_pc = "joining" /\ id \in Range(queue_) /\ w_pc \notin {"flush", "done"})
              ~> (id \in Range(dequeued) \cup Range(evicted))

\* shutdown() has cleared running_ and notified while the worker, having found
\* its predicate false, was not yet waiting: it now waits with no notification
\* to come
C24_Witness ==
    /\ m_pc = "joining" /\ ~running_
    /\ w_pc = "blocked" /\ ~q_cv_
    /\ dequeued # << >>

\* C25: the handles subscribe() returns are strictly increasing (so pairwise
\* distinct, and none is handed out again after unsubscribe); unsubscribe(id)
\* takes exactly id out of the subscribers and leaves them as they are when
\* id is not among them; and a snapshot taken by log() after unsubscribe(id)
\* returned does not hold id, callbacks being invoked from the snapshot only.
C25_HandlesAndUnsubscribe ==
    /\ [](\A i, j \in 1..Len(handles) : i < j => handles[i] < handles[j])
    /\ [][\A id \in 1..(MaxHandles + 1) : unsubscribe(id) =>
             /\ subscribers_' = subscribers_ \ {id}
             /\ (id \notin subscribers_ => subscribers_' = subscribers_)
             /\ UNCHANGED << next_sub_id_, handles >>]_vars
    /\ [][\A p \in Producers : (p_pc[p] = "snapshot" /\ p_pc'[p] = "fanout") =>
             p_snap'[p] \cap unsubscribed = {}]_vars
    /\ [](\A p \in Producers : { p_inv[p][i].sub : i \in 1..Len(p_inv[p]) } \subseteq p_snap[p])

\* subscribers 1 and 2 were registered and 1 unsubscribed; a third subscribe()
\* returned 3; the log() call under way took its snapshot without 1 and has
\* invoked 2 and 3
C25_Witness ==
    /\ handles = << 1, 2, 3 >> /\ unsubscribed = {1}
    /\ p_pc["p1"] = "fanout" /\ p_snap["p1"] = {2, 3} /\ p_subs["p1"] = {}
    /\ Len(p_inv["p1"]) = 2

\* C26: log() never ends in an exception: when a callback throws, the call
\* goes on to the remaining subscribers of its snapshot, each of which is
\* invoked once; the callbacks leave the queue alone, so the record of the
\* call is queued, with the worker, or was evicted by a later call; and a call
\* that evicts a record goes on like any other.
C26_LogNeverFails ==
    /\ [](\A p \in Producers : p_pc[p] \in {"idle", "enqueue", "snapshot", "fanout"})
    /\ [](\A p \in Producers : (p_pc[p] = "fanout" /\ p_subs[p] = {}) =>
             /\ { p_inv[p][i].sub : i \in 1..Len(p_inv[p]) } = p_snap[p]
             /\ Len(p_inv[p]) = Cardinality(p_snap[p]))
    /\ [](\A p \in Producers : p_pc[p] = "fanout" =>
             /\ p_rec[p] \in Range(accepted)
             /\ p_rec[p] \in Range(queue_) \cup Range(dequeued) \cup Range(evicted))
    /\ [][\A p \in Producers : (LogCallback(p) \/ LogCallbackThrows(p)) =>
             UNCHANGED << queue_, accepted, evicted >>]_vars

\* the fourth call found the queue full and evicted the first record; its first
\* callback threw, the second one was invoked all the same, and its record is
\* the newest of the queue
C26_Witness ==
    /\ p_pc["p1"] = "fanout" /\ p_subs["p1"] = {} /\ p_snap["p1"] = {1, 2}
    /\ Len(p_inv["p1"]) = 2 /\ p_inv["p1"][1].threw /\ ~p_inv["p1"][2].threw
    /\ evicted = << 1 >> /\ p_rec["p1"] = 4
    /\ queue_ = << 2, 3, 4 >>

\* C27: setLevel() changes nothing but the threshold: what was accepted before
\* it is still passed to every sink (once the worker has emptied the queue,
\* every accepted record was evicted by overflow or consumed by all sinks),
\* and a call that returned at the threshold test has left no record
\* anywhere, whatever the threshold is now.
C27_NotRetroactive ==
    /\ [][\A lvl \in SetLevels : setLevel(lvl) =>
             UNCHANGED << queue_, accepted, dequeued, consumed, dropped, w_it >>]_vars
    /\ []((queue_ = << >> /\ w_pc \in {"loop", "wait"}) =>
             \A id \in Range(accepted) :
                 \/ id \in Range(evicted)
                 \/ \A s \in Range(sinks_) : id \in Range(consumed[s]))
    /\ [](\A id \in dropped :
             /\ id \notin Range(accepted) \cup Range(queue_) \cup Range(dequeued)
             /\ \A s \in SinkIds : id \notin Range(consumed[s]))

\* a record below WARN was waiting when setLevel(WARN) came and has been
\* consumed by both sinks; the latest call, at INFO, was dropped under WARN,
\* and setLevel(INFO) has since lowered the threshold to its level
C27_Witness ==
    /\ n_setlevel = 2 /\ threshold_ = INFO
    /\ \E id \in raised_over : \A s \in SinkIds : id \in Range(consumed[s])
    /\ last_call.id \in dropped /\ last_call.level = INFO
    /\ queue_ = << >> /\ w_pc = "wait"

\* a sink that leaves file mode is on stdout and has written the triggering
\* record there; a sink on stdout stays there, writes every record to stdout
\* and touches no file
StdoutIsFinal ==
    /\ [][(fp_ = "file" /\ fp_' # "file") =>
             (fp_' = "stdout" /\ out_stdout' = Append(out_stdout, rot_last'.rec))]_vars
    /\ [][fp_ = "stdout" =>
             /\ fp_' = "stdout"
             /\ fs' = fs
             /\ out_stdout' = Append(out_stdout, rot_last'.rec)]_vars

\* C31: a RotatingFileSink whose target cannot be opened at construction, or
\* reopened after a rotation, writes to standard output instead of failing:
\* construction always yields a sink, in file mode or on stdout, and from the
\* moment it is on stdout every record goes there, no file is rotated, renamed
\* or deleted, and the sink does not return to file mode.
C31_StdoutFallback == [](fp_ \in {"file", "stdout"}) /\ StdoutIsFinal

\* a buffer with at least one slot never computes an index outside buffer_
\* and dump() returns the latest messages, oldest first
SoundWithSlots ==
    /\ [][global_buf_.capacity_ > 0 =>
             (buf_hist'.oob = buf_hist.oob /\ buf_hist'.div0 = buf_hist.div0)]_vars
    /\ []((global_buf_.capacity_ > 0 /\ buf_hist.fresh) =>
             buf_hist.dumped = LastOf(buf_hist.logged,
                                      Min(Len(buf_hist.logged), global_buf_.capacity_)))

\* C32: for every capacity c in 0..N, resetBuffer(c) discards the contents
\* and leaves a buffer of capacity c: dump() is empty right after, after k later
\* log calls dump() returns the min(k, c) most recent messages oldest first, and
\* no index computation leaves the buffer or takes a remainder modulo zero.
C32_ResetBuffer ==
    /\ ~buf_hist.oob
    /\ ~buf_hist.div0
    /\ buf_hist.alive
    /\ buf_hist.fresh =>
           buf_hist.dumped = LastOf(buf_hist.logged,
                                    Min(Len(buf_hist.logged), global_buf_.capacity_))

\* value_to_keys_ holds key under value exactly when kv_store_ maps key to value
IndexIsInverse ==
    \A k \in Keys, v \in Values :
        (v \in DOMAIN value_to_keys_ /\ k \in value_to_keys_[v])
            <=> (k \in DOMAIN kv_store_ /\ kv_store_[k] = v)

\* update and remove return whether the key was there, and a call that
\* returns false leaves the maps and the update and delete counters alone
MissingKeyIsNoOp ==
    /\ [](st_last.op \in {"update", "remove"} => st_last.ret = st_last.had)
    /\ [][(st_last'.op \in {"update", "remove"} /\ ~st_last'.ret) =>
             UNCHANGED << kv_store_, value_to_keys_, update_count, delete_count >>]_vars

\* C33: after any sequence of put, update, remove and loadFromFile the
\* reverse index is exactly the inverse of the key-value map, no value maps to
\* an empty key set, and update or remove of a missing key returns false and
\* changes neither map nor the update and delete counters.
C33_ReverseIndex ==
    /\ []IndexIsInverse
    /\ [](\A v \in DOMAIN value_to_keys_ : value_to_keys_[v] # {})
    /\ MissingKeyIsNoOp

\* the place of a lock in the order sinks_mtx_ -> sessions_mtx_ -> ring
lockRank(l) ==
    CASE l = "sinks_mtx_" -> 1
      [] l = "sessions_mtx_" -> 2
      [] l \in {"global_.mtx_", "ring.mtx_"} -> 3
      [] OTHER -> 0

\* the locks a thread holds together are taken in the order of lockRank;
\* q_mtx_, subs_mtx_ (and a sink's own mutex) are held alone
NestedInOrder ==
    \A t \in Threads :
        Len(held[t]) > 1 =>
            /\ \A i \in 1..Len(held[t]) : lockRank(held[t][i].l) > 0
            /\ \A i \in 1..(Len(held[t]) - 1) :
                   lockRank(held[t][i].l) < lockRank(held[t][i + 1].l)

\* a thread about to call a subscriber or a sink's consume() holds no lock
CalledUnlocked ==
    \A t \in Threads :
        (todo[t] # << >> /\ Head(todo[t]).k = "call") => held[t] = << >>

\* thread t is at a lock() that cannot return now
waiting(t) ==
    /\ todo[t] # << >>
    /\ Head(todo[t]).k = "acq"
    /\ \/ HoldsLock(t, Head(todo[t]).l)
       \/ blockers(t, Head(todo[t]).l, Head(todo[t]).m) # {}

\* the threads whose unlock() t waits for, itself included when it holds the
\* mutex it asks for
waitsFor(t) ==
    blockers(t, Head(todo[t]).l, Head(todo[t]).m)
        \cup (IF HoldsLock(t, Head(todo[t]).l) THEN {t} ELSE {})

\* no set of threads each waits for a lock held inside the set
NoDeadlock ==
    \A S \in SUBSET Threads :
        S # {} => \E t \in S : ~waiting(t) \/ waitsFor(t) \cap S = {}

\* C34: the pipeline is deadlock-free: locks are nested only in the order
\* sinks_mtx_ -> sessions_mtx_ -> ring mutex, q_mtx_ and subs_mtx_ are never
\* held together with another lock, subscribers and consume() are called with no
\* lock held, so no thread (in particular a callback calling subscribe,
\* unsubscribe, addSink or a query) waits for a lock its own thread holds, and no
\* group of threads wait for each other.
C34_DeadlockFree ==
    /\ NestedInOrder
    /\ CalledUnlocked
    /\ \A t \in Threads : waiting(t) => ~HoldsLock(t, Head(todo[t]).l)
    /\ NoDeadlock

\* a callback run by log() is inside subscribe() holding subs_mtx_, and
\* another is inside a query holding sinks_mtx_, sessions_mtx_ and the ring's
\* mutex while the worker waits for sinks_mtx_
C34_Witness ==
    /\ \E t \in Threads :
        /\ Len(stack[t]) = 2 /\ stack[t][2] = "callback"
        /\ held[t] = << [l |-> "subs_mtx_", m |-> "unique"] >>
    /\ \E t \in Threads :
        /\ Len(stack[t]) = 2 /\ stack[t][2] = "callback"
        /\ Len(held[t]) = 3
    /\ waiting("worker") /\ Head(todo["worker"]).l = "sinks_mtx_"

====
